---- MODULE Spec2Model ----
(***************************************************************************)
(* The cooperative task scheduler of packages/scheduler: TaskQueue          *)
(* (task-queue.js) with its three intrusive doubly linked lists, the task   *)
(* pool, flush requests, suspension by async tasks and yield().             *)
(*                                                                          *)
(* The program is single threaded.  An action of the model is one run of    *)
(* program code between two points where the outside world decides what     *)
(* happens next: a call made by a consumer (queueTask, take, cancel,        *)
(* yield), the host firing a requested flush, the clock advancing, a        *)
(* promise settling, and a user callback returning.  A flush is therefore   *)
(* cut at the user callbacks it invokes: the code from the start of flush() *)
(* to the invocation of the first callback is one action, the code from a   *)
(* callback's return to the next invocation (or to the end of flush()) is   *)
(* the next one.  While a callback is executing (running # None) the        *)
(* consumer calls are the calls made by that callback.                      *)
(*                                                                          *)
(* Code is translated as operators from a state record to a state record,   *)
(* so that a handler is the composition of the calls it makes.  A thrown    *)
(* exception is the field err of the record: every operator passes a state  *)
(* that holds an error through unchanged, which is how an exception leaves  *)
(* the statements after it unexecuted.                                      *)
(***************************************************************************)
EXTENDS Integers, Sequences, FiniteSets, TLC

VARIABLES
  now,       \* the clock: what this.now() returns
  task,      \* the Task objects: [Tasks -> record], status "free" = not constructed
  queue,     \* the TaskQueue objects: [Queues -> record]
  host,      \* per queue: requests outstanding at its FlushRequestor
  flushing,  \* the queue whose flush() is on the stack, or NoQueue
  running,   \* the task whose user callback is executing, or None
  err,       \* the exception thrown by the last action, or "none"
  ghost      \* history: what the claims need to remember of the run

vars == <<now, task, queue, host, flushing, running, err, ghost>>

(***************************************************************************)
(* Bounds of the model.                                                     *)
(***************************************************************************)
MaxTasks == 4     \* Task objects that can be constructed
MaxTime == 2      \* the clock runs from 0 to MaxTime
MaxDelay == 2     \* delays are drawn from 0..MaxDelay
MaxHost == 2      \* requests counted at one FlushRequestor
MaxAsync == 2     \* cap of the ghost counters
MaxQueued == 4    \* queueTask calls made by consumers
MaxQueuedFifo == 5 \* the same in SpecFifo
MaxQueuedTake == 2 \* the same in SpecTake
MaxTakes == 2     \* take calls made by consumers
MaxSkew == 2      \* how far a size counter may run away from 0..MaxTasks
MaxQueuedDelay == 3 \* queueTask calls in SpecDelay
MaxQueuedSuspend == 3 \* queueTask calls in SpecSuspend
MaxQueuedLocal == 3 \* queueTask calls in SpecResume and SpecLocal
MaxQueuedYield == 3 \* queueTask calls in SpecYield
MaxQueuedWait == 2 \* queueTask calls in SpecWait
MaxQueuedReset == 3 \* queueTask calls in SpecReset
MaxQueuedValidate == 2 \* accepted queueTask calls in SpecValidate
MaxQueuedRemove == 2 \* queueTask calls in SpecRemove
MaxQueuedCancel == 2 \* queueTask calls in SpecCancel
MaxQueuedMismatch == 3 \* queueTask calls in SpecMismatch

(***************************************************************************)
(* Program constants.                                                       *)
(***************************************************************************)
None == 0         \* void 0 / null: no task
MicroQ == 0       \* TaskQueuePriority.microTask, the unclamped tier
MacroQ == 1       \* the host-clamped tier behind scheduler.queueMacroTask
NoQueue == 2      \* no queue (flushing)

Queues == {MicroQ, MacroQ}
Tasks == 1..MaxTasks
Lists == {"processing", "pending", "delayed"}

Priority(q) == q

HeadF(l) == CASE l = "processing" -> "processingHead"
              [] l = "pending" -> "pendingHead"
              [] OTHER -> "delayedHead"
TailF(l) == CASE l = "processing" -> "processingTail"
              [] l = "pending" -> "pendingTail"
              [] OTHER -> "delayedTail"
SizeF(l) == CASE l = "processing" -> "processingSize"
              [] l = "pending" -> "pendingSize"
              [] OTHER -> "delayedSize"

(***************************************************************************)
(* Objects after construction.                                              *)
(***************************************************************************)
FreeTask ==
  [status |-> "free", createdTime |-> 0, queueTime |-> 0, preempt |-> FALSE,
   persistent |-> FALSE, suspend |-> FALSE, reusable |-> FALSE,
   prev |-> None, next |-> None, taskQueue |-> NoQueue,
   callback |-> "none", promise |-> FALSE]

NewQueue ==
  [processingSize |-> 0, processingHead |-> None, processingTail |-> None,
   suspenderTask |-> None, pendingAsyncCount |-> 0,
   pendingSize |-> 0, pendingHead |-> None, pendingTail |-> None,
   delayedSize |-> 0, delayedHead |-> None, delayedTail |-> None,
   flushRequested |-> FALSE, yieldPromise |-> FALSE,
   taskPool |-> << >>, microTaskRequestFlushTask |-> None]

NewGhost ==
  [ran |-> [t \in Tasks |-> FALSE],       \* callback invoked since the task was queued
   seq |-> [t \in Tasks |-> 0],           \* position of the task's queueTask call
   nq |-> 0,                              \* queueTask calls made by consumers
   nt |-> 0,                              \* take calls made by consumers
   delay |-> [t \in Tasks |-> 0],         \* the delay the task was queued with
   home |-> [t \in Tasks |-> NoQueue],    \* the queue the task was queued on or taken to
   taken |-> [t \in Tasks |-> FALSE],     \* the task was moved by take
   cancelled |-> [t \in Tasks |-> FALSE], \* cancel() was called on it while pending
   live |-> {},                           \* tasks a queueTask call of a consumer returned
   ahead |-> [t \in Tasks |-> {}],        \* preempt task: the tasks waiting in processing when it was queued
   behind |-> [t \in Tasks |-> {}],       \* preempt task: the tasks waiting in pending when it was queued
   invoked |-> << >>,                     \* callbacks invoked by the last action: [t, home, susp, early]
   owed |-> {},                           \* tasks the flush in progress took on and has not run yet
   due |-> {},                            \* delayed tasks that were due when the last flush started, not run yet
   prefix |-> {},                         \* those of them a flush that is not suspended reaches
   left |-> [q \in Queues |-> << >>],     \* the tasks left waiting in processing when q was suspended, in list order
   during |-> [q \in Queues |-> {}],      \* the tasks queued to pending of q during that suspension
   polled |-> {},                         \* queues a flush has found suspended since they were suspended
   yielded |-> {},                        \* queues where a yield() call completed in the last action
   waiters |-> [q \in Queues |-> 0],      \* yield() callers awaiting the outstanding waiter
   stale |-> [q \in Queues |-> 0],        \* yield() callers awaiting a waiter the queue no longer holds
   released |-> [q \in Queues |-> 0],     \* yield() callers the last action's resolution released
   resets |-> << >>,                      \* what each resetPersistentTask of the last action did
   handed |-> << >>,                      \* what each queueTask of the last action returned
   again |-> {},                          \* tasks the last action called cancel() on when they had finished
   twice |-> {},                          \* non-persistent tasks invoked again since they were queued
   made |-> {},                           \* tasks the flush pass in progress queued without preempt, or reset
   rerun |-> {},                          \* tasks invoked by the flush pass that queued or reset them
   watched |-> [q \in Queues |-> None],   \* the persistent task queued last among those waiting in q when its outstanding waiter was created
   since |-> [q \in Queues |-> 0],        \* how often that task was invoked since (2: more than once)
   cycle |-> {}]                          \* <<q, t, n>>: the last action resolved the waiter of q, t was watched, is not canceled, and was invoked n times

(***************************************************************************)
(* The state as a record, and errors.                                       *)
(***************************************************************************)
Cur ==
  [now |-> now, task |-> task, queue |-> queue, host |-> host,
   flushing |-> flushing, running |-> running, err |-> err, ghost |-> ghost]

Ok(s) == s.err = "none"
\* statement sequencing: F is what follows, v the state the statement before left;
\* v is evaluated once, before F
Then(v, F(_)) == CHOOSE r \in {F(x) : x \in {v}} : TRUE
Throw(s0, e) ==
  Then(s0, LAMBDA s :
  IF Ok(s) THEN [s EXCEPT !.err = e] ELSE s)

\* this.<f> = v on queue q
SetQ(s0, q, f, v) ==
  Then(s0, LAMBDA s :
  IF Ok(s) THEN [s EXCEPT !.queue[q][f] = v] ELSE s)
\* t.<f> = v; a write through an undefined reference is a TypeError
SetT(s0, t, f, v) ==
  Then(s0, LAMBDA s :
  IF ~Ok(s) THEN s
  ELSE IF t = None THEN Throw(s, "TypeError")
  ELSE [s EXCEPT !.task[t][f] = v])

(***************************************************************************)
(* TaskQueue: the list primitives.                                          *)
(***************************************************************************)
\* isEmpty that also asks for no async task in flight
IsEmptyAndIdle(s0, q) ==
  Then(s0, LAMBDA s :
  /\ s.queue[q].processingSize = 0
  /\ s.queue[q].pendingSize = 0
  /\ s.queue[q].delayedSize = 0
  /\ s.queue[q].pendingAsyncCount = 0)

IsEmpty(s0, q) ==
  Then(s0, LAMBDA s :
  /\ s.queue[q].processingSize = 0
  /\ s.queue[q].pendingSize = 0
  /\ s.queue[q].delayedSize = 0)

\* task.next.prev = task.prev; task.prev.next = task.next (each only if defined)
Finish(s0, t) ==
  Then(s0, LAMBDA s :
  LET s1 == IF s.task[t].next # None
            THEN SetT(s, s.task[t].next, "prev", s.task[t].prev) ELSE s
  IN IF ~Ok(s1) THEN s1
     ELSE IF s1.task[t].prev # None
     THEN SetT(s1, s1.task[t].prev, "next", s1.task[t].next) ELSE s1)

\* removeFromProcessing / removeFromPending / removeFromDelayed, l names the list
RemoveFromList(s0, q, l, t) ==
  Then(s0, LAMBDA s :
  IF ~Ok(s) THEN s
  ELSE
    LET s1 == IF s.queue[q][HeadF(l)] = t
              THEN SetQ(s, q, HeadF(l), s.task[t].next) ELSE s
        s2 == IF s1.queue[q][TailF(l)] = t
              THEN SetQ(s1, q, TailF(l), s1.task[t].prev) ELSE s1
        s3 == SetQ(s2, q, SizeF(l), s2.queue[q][SizeF(l)] - 1)
    IN Finish(s3, t))

RemoveFromProcessing(s, q, t) == RemoveFromList(s, q, "processing", t)
RemoveFromPending(s, q, t) == RemoveFromList(s, q, "pending", t)
RemoveFromDelayed(s, q, t) == RemoveFromList(s, q, "delayed", t)

\* if (this.xSize++ === 0) head = tail = task
\* else this.xTail = (task.prev = this.xTail).next = task
AddToList(s0, q, l, t) ==
  Then(s0, LAMBDA s :
  IF ~Ok(s) THEN s
  ELSE
    LET n == s.queue[q][SizeF(l)]
        s1 == SetQ(s, q, SizeF(l), n + 1)
    IN IF n = 0
       THEN SetQ(SetQ(s1, q, HeadF(l), t), q, TailF(l), t)
       ELSE LET tl == s1.queue[q][TailF(l)]
                s2 == SetT(s1, t, "prev", tl)
                s3 == SetT(s2, tl, "next", t)
            IN SetQ(s3, q, TailF(l), t))

AddToProcessing(s, q, t) == AddToList(s, q, "processing", t)
AddToPending(s, q, t) == AddToList(s, q, "pending", t)
AddToDelayed(s, q, t) == AddToList(s, q, "delayed", t)

\* let cur = head; while (cur !== void 0) { if (cur === task) found; cur = cur.next }
\* "hang": the next links form a cycle that does not hold the task
RECURSIVE Scan(_, _, _, _)
Scan(s0, cur, t, seen) ==
  Then(s0, LAMBDA s :
  IF cur = None THEN "absent"
  ELSE IF cur = t THEN "found"
  ELSE IF cur \in seen THEN "hang"
  ELSE Scan(s, s.task[cur].next, t, seen \cup {cur}))

Remove(s0, q, t) ==
  Then(s0, LAMBDA s :
  IF ~Ok(s) THEN s
  ELSE IF s.task[t].preempt THEN RemoveFromProcessing(s, q, t)
  ELSE IF s.task[t].queueTime > s.now THEN RemoveFromDelayed(s, q, t)
  ELSE
    LET a == Scan(s, s.queue[q].processingHead, t, {})
        b == Scan(s, s.queue[q].pendingHead, t, {})
        c == Scan(s, s.queue[q].delayedHead, t, {})
    IN IF a = "found" THEN RemoveFromProcessing(s, q, t)
       ELSE IF a = "hang" THEN Throw(s, "Hang")
       ELSE IF b = "found" THEN RemoveFromPending(s, q, t)
       ELSE IF b = "hang" THEN Throw(s, "Hang")
       ELSE IF c = "found" THEN RemoveFromDelayed(s, q, t)
       ELSE IF c = "hang" THEN Throw(s, "Hang")
       ELSE Throw(s, "TaskNotFound"))

\* this.taskPool[this.taskPoolSize++] = task
ReturnToPool(s0, q, t) ==
  Then(s0, LAMBDA s :
  SetQ(s, q, "taskPool", Append(s.queue[q].taskPool, t)))

(***************************************************************************)
(* Task: reset, reuse, dispose, cancel.                                     *)
(***************************************************************************)
Dispose(s, t) == SetT(SetT(s, t, "prev", None), t, "next", None)

\* cancel(): from pending the task is unlinked, marked canceled and pooled if
\* reusable; from running it is marked canceled; otherwise nothing happens
\* cancel() that unlinks the task whatever its status
TaskCancelAnyStatus(s0, t) ==
  Then(s0, LAMBDA s :
  IF ~Ok(s) THEN s
  ELSE LET q == s.task[t].taskQueue
       IN Then(Dispose(SetT(Remove(s, q, t), t, "status", "canceled"), t), LAMBDA s2 :
          IF s.task[t].reusable THEN ReturnToPool(s2, q, t) ELSE s2))

TaskCancel(s0, t) ==
  Then(s0, LAMBDA s :
  IF ~Ok(s) THEN s
  ELSE IF s.task[t].status = "pending" THEN
    LET q == s.task[t].taskQueue
    IN Then(Dispose(SetT(Remove(s, q, t), t, "status", "canceled"), t), LAMBDA s2 :
       Then(IF s.task[t].reusable THEN ReturnToPool(s2, q, t) ELSE s2, LAMBDA s3 :
         IF ~Ok(s3) THEN s3
         ELSE [s3 EXCEPT !.ghost.cancelled[t] = TRUE, !.ghost.owed = @ \ {t},
                         !.ghost.due = @ \ {t}, !.ghost.prefix = @ \ {t},
                         !.ghost.left = [p \in Queues |-> SelectSeq(@[p], LAMBDA u : u # t)],
                         !.ghost.during = [p \in Queues |-> @[p] \ {t}]]))
  ELSE IF s.task[t].status = "running" THEN SetT(s, t, "status", "canceled")
  ELSE s)

(***************************************************************************)
(* TaskQueue: flush requests.                                               *)
(***************************************************************************)
HostRequest(s0, q) ==
  Then(s0, LAMBDA s :
  IF ~Ok(s) THEN s
  ELSE [s EXCEPT !.host[q] = IF @ < MaxHost THEN @ + 1 ELSE @])

HostCancel(s0, q) ==
  Then(s0, LAMBDA s :
  IF ~Ok(s) THEN s ELSE [s EXCEPT !.host[q] = 0])

\* the poke is canceled but the field keeps referring to it
CancelPokeKeepsRef(s0, q) ==
  Then(s0, LAMBDA s :
  IF ~Ok(s) THEN s
  ELSE IF s.queue[q].microTaskRequestFlushTask # None
  THEN TaskCancel(s, s.queue[q].microTaskRequestFlushTask)
  ELSE s)

CancelPoke(s0, q) ==
  Then(s0, LAMBDA s :
  IF ~Ok(s) THEN s
  ELSE IF s.queue[q].microTaskRequestFlushTask # None
  THEN SetQ(TaskCancel(s, s.queue[q].microTaskRequestFlushTask),
            q, "microTaskRequestFlushTask", None)
  ELSE s)

\* cancel() that forgets the request without retracting it at the host
QueueCancelFlagOnly(s, q) ==
  Then(CancelPoke(s, q), LAMBDA s1 :
    IF ~Ok(s1) THEN s1
    ELSE IF s1.queue[q].flushRequested
    THEN SetQ(s1, q, "flushRequested", FALSE)
    ELSE s1)

QueueCancel(s, q) ==
  Then(CancelPoke(s, q), LAMBDA s1 :
    IF ~Ok(s1) THEN s1
    ELSE IF s1.queue[q].flushRequested
    THEN SetQ(HostCancel(s1, q), q, "flushRequested", FALSE)
    ELSE s1)

\* requestFlush that asks the host again although a flush is requested
RequestFlushAgain(s, q) ==
  Then(CancelPoke(s, q), LAMBDA s1 :
    IF ~Ok(s1) THEN s1
    ELSE HostRequest(SetQ(s1, q, "flushRequested", TRUE), q))

RequestFlush(s, q) ==
  Then(CancelPoke(s, q), LAMBDA s1 :
    IF ~Ok(s1) THEN s1
    ELSE IF ~s1.queue[q].flushRequested
    THEN HostRequest(SetQ(s1, q, "flushRequested", TRUE), q)
    ELSE s1)

(***************************************************************************)
(* Task: construction, reuse, reset.                                        *)
(***************************************************************************)
\* new Task(taskQueue, time, time + delay, preempt, persistent, suspend, reusable, callback)
Construct(s0, t, q, o, cb) ==
  Then(s0, LAMBDA s :
  IF ~Ok(s) THEN s
  ELSE [s EXCEPT !.task[t] =
          [status |-> "pending", createdTime |-> s.now, queueTime |-> s.now + o.delay,
           preempt |-> o.preempt, persistent |-> o.persistent, suspend |-> o.suspend,
           reusable |-> o.reusable, prev |-> None, next |-> None, taskQueue |-> q,
           callback |-> cb, promise |-> FALSE]])

\* task.reuse(time, delay, preempt, persistent, suspend, callback)
Reuse(s0, t, o, cb) ==
  Then(s0, LAMBDA s :
  IF ~Ok(s) THEN s
  ELSE [s EXCEPT !.task[t].status = "pending", !.task[t].createdTime = s.now,
                 !.task[t].queueTime = s.now + o.delay, !.task[t].preempt = o.preempt,
                 !.task[t].persistent = o.persistent, !.task[t].suspend = o.suspend,
                 !.task[t].callback = cb])

\* task.reset(time): queueTime is the time of the reset plus the original delay
Reset(s0, t) ==
  Then(s0, LAMBDA s :
  IF ~Ok(s) THEN s
  ELSE LET delay == s.task[t].queueTime - s.task[t].createdTime
       IN [s EXCEPT !.task[t].createdTime = s.now, !.task[t].queueTime = s.now + delay,
                    !.task[t].status = "pending"])

\* the object a new Task() is: the first one not constructed yet (None: the
\* model's bound MaxTasks is reached)
FreeSlot(s0) ==
  Then(s0, LAMBDA s :
  IF \E t \in Tasks : s.task[t].status = "free"
  THEN CHOOSE t \in Tasks : s.task[t].status = "free"
                            /\ \A u \in Tasks : s.task[u].status = "free" => t <= u
  ELSE None)

(***************************************************************************)
(* TaskQueue.queueTask                                                      *)
(***************************************************************************)
\* queueTask without its preempt branch: every zero-delay task goes to pending
PlaceOfNoPreempt(o) == IF o.delay = 0 THEN "pending" ELSE "delayed"

PlaceOf(o) == IF o.preempt THEN "processing"
              ELSE IF o.delay = 0 THEN "pending" ELSE "delayed"

\* the task queueTask returns
QueueTaskResult(s0, q, o) ==
  Then(s0, LAMBDA s :
  LET pool == s.queue[q].taskPool
  IN IF o.reusable /\ Len(pool) > 0 THEN pool[Len(pool)] ELSE FreeSlot(s))

\* the tasks linked in list l of q: head, head.next, ... up to a task met before
RECURSIVE Chain(_, _, _)
Chain(s0, cur, seen) ==
  Then(s0, LAMBDA s :
  IF cur = None \/ cur \in seen THEN {}
  ELSE {cur} \cup Chain(s, s.task[cur].next, seen \cup {cur}))

Waiting(s0, q, l) ==
  Then(s0, LAMBDA s :
  {t \in Chain(s, s.queue[q][HeadF(l)], {}) : s.task[t].status = "pending"})

\* the same in list order
RECURSIVE ChainSeq(_, _, _)
ChainSeq(s0, cur, seen) ==
  Then(s0, LAMBDA s :
  IF cur = None \/ cur \in seen THEN << >>
  ELSE <<cur>> \o ChainSeq(s, s.task[cur].next, seen \cup {cur}))

WaitingSeq(s0, q, l) ==
  Then(s0, LAMBDA s :
  SelectSeq(ChainSeq(s, s.queue[q][HeadF(l)], {}), LAMBDA t : s.task[t].status = "pending"))

\* history only: the order of the consumers' queueTask calls
Stamp(s0, t, q, o, cb) ==
  Then(s0, LAMBDA s :
  IF ~Ok(s) THEN s
  ELSE [s EXCEPT !.ghost.nq = IF cb = "user" THEN @ + 1 ELSE @,
                 !.ghost.seq[t] = IF cb = "user" THEN s.ghost.nq + 1 ELSE 0,
                 !.ghost.ran[t] = FALSE, !.ghost.delay[t] = o.delay,
                 !.ghost.home[t] = q, !.ghost.taken[t] = FALSE,
                 !.ghost.cancelled[t] = FALSE,
                 !.ghost.live = @ \ {t},
                 !.ghost.ahead = [u \in Tasks |-> IF u = t THEN {} ELSE @[u] \ {t}],
                 !.ghost.behind = [u \in Tasks |-> IF u = t THEN {} ELSE @[u] \ {t}],
                 !.ghost.owed = @ \ {t},
                 !.ghost.due = @ \ {t}, !.ghost.prefix = @ \ {t},
                 !.ghost.left = [p \in Queues |-> SelectSeq(@[p], LAMBDA u : u # t)],
                 !.ghost.during = [p \in Queues |-> @[p] \ {t}]])

\* history only: the Task object a queueTask returned and the pool around it
Handed(s1, s0, q, o, t) ==
  Then(s0, LAMBDA s :
  IF ~Ok(s) THEN s
  ELSE [s EXCEPT !.ghost.handed =
          Append(@, [q |-> q, t |-> t, reusable |-> o.reusable,
                     poolWas |-> s1.queue[q].taskPool, pool |-> s.queue[q].taskPool,
                     fresh |-> s1.task[t].status = "free"])])

\* queueTask that reuses the Task object that has been in the pool longest
QueueTaskOldestPooled(s0, q, o, cb) ==
  Then(s0, LAMBDA s :
  IF ~Ok(s) THEN s
  ELSE IF o.preempt /\ o.delay > 0 THEN Throw(s, "InvalidArguments")
  ELSE IF o.preempt /\ o.persistent THEN Throw(s, "InvalidArguments")
  ELSE IF o.persistent /\ Priority(q) = MicroQ THEN Throw(s, "InvalidArguments")
  ELSE
    Then(IF s.queue[q].processingSize = 0 THEN RequestFlush(s, q) ELSE s, LAMBDA s1 :
      LET pool == s1.queue[q].taskPool
          fromPool == o.reusable /\ Len(pool) > 0
          t == IF fromPool THEN pool[1] ELSE FreeSlot(s1)
          s2 == IF ~Ok(s1) THEN s1
                ELSE IF fromPool
                THEN Reuse(SetQ(s1, q, "taskPool", Tail(pool)), t, o, cb)
                ELSE IF t = None THEN Throw(s1, "NoSlot")
                ELSE Construct(s1, t, q, o, cb)
      IN Handed(s1, AddToList(Stamp(s2, t, q, o, cb), q, PlaceOf(o), t), q, o, t)))

\* queueTask that requests the flush before it looks at the options
QueueTaskValidatesLate(s0, q, o, cb) ==
  Then(s0, LAMBDA s :
  IF ~Ok(s) THEN s
  ELSE
    Then(IF s.queue[q].processingSize = 0 THEN RequestFlush(s, q) ELSE s, LAMBDA s1 :
      IF o.preempt /\ o.delay > 0 THEN Throw(s1, "InvalidArguments")
      ELSE IF o.preempt /\ o.persistent THEN Throw(s1, "InvalidArguments")
      ELSE IF o.persistent /\ Priority(q) = MicroQ THEN Throw(s1, "InvalidArguments")
      ELSE
      LET pool == s1.queue[q].taskPool
          fromPool == o.reusable /\ Len(pool) > 0
          t == IF fromPool THEN pool[Len(pool)] ELSE FreeSlot(s1)
          s2 == IF ~Ok(s1) THEN s1
                ELSE IF fromPool
                THEN Reuse(SetQ(s1, q, "taskPool", SubSeq(pool, 1, Len(pool) - 1)), t, o, cb)
                ELSE IF t = None THEN Throw(s1, "NoSlot")
                ELSE Construct(s1, t, q, o, cb)
      IN Handed(s1, AddToList(Stamp(s2, t, q, o, cb), q, PlaceOf(o), t), q, o, t)))

QueueTask(s0, q, o, cb) ==
  Then(s0, LAMBDA s :
  IF ~Ok(s) THEN s
  ELSE IF o.preempt /\ o.delay > 0 THEN Throw(s, "InvalidArguments")
  ELSE IF o.preempt /\ o.persistent THEN Throw(s, "InvalidArguments")
  ELSE IF o.persistent /\ Priority(q) = MicroQ THEN Throw(s, "InvalidArguments")
  ELSE
    Then(IF s.queue[q].processingSize = 0 THEN RequestFlush(s, q) ELSE s, LAMBDA s1 :
      LET pool == s1.queue[q].taskPool
          fromPool == o.reusable /\ Len(pool) > 0
          t == IF fromPool THEN pool[Len(pool)] ELSE FreeSlot(s1)
          s2 == IF ~Ok(s1) THEN s1
                ELSE IF fromPool
                THEN Reuse(SetQ(s1, q, "taskPool", SubSeq(pool, 1, Len(pool) - 1)), t, o, cb)
                ELSE IF t = None THEN Throw(s1, "NoSlot")
                ELSE Construct(s1, t, q, o, cb)
      IN Handed(s1, AddToList(Stamp(s2, t, q, o, cb), q, PlaceOf(o), t), q, o, t)))

\* const microTaskRequestFlushTaskOptions
microTaskRequestFlushTaskOptions ==
  [delay |-> 0, preempt |-> TRUE, persistent |-> FALSE, reusable |-> TRUE, suspend |-> FALSE]

\* the microtask tier is clamped by a poke task on the macrotask queue whose
\* callback is this queue's requestFlush
RequestFlushClamped(s0, q) ==
  Then(s0, LAMBDA s :
  IF ~Ok(s) THEN s
  ELSE IF Priority(q) <= MicroQ
  THEN LET t == QueueTaskResult(s, MacroQ, microTaskRequestFlushTaskOptions)
       IN SetQ(QueueTask(s, MacroQ, microTaskRequestFlushTaskOptions, "poke"),
               q, "microTaskRequestFlushTask", t)
  ELSE RequestFlush(s, q))

(***************************************************************************)
(* TaskQueue.take, resetPersistentTask                                      *)
(***************************************************************************)
\* take that requests the flush before it looks at the status of the task
TakeRequestsFirst(s0, q, t) ==
  Then(s0, LAMBDA s :
  IF ~Ok(s) THEN s
  ELSE
    Then(IF s.queue[q].processingSize = 0 THEN RequestFlush(s, q) ELSE s, LAMBDA s1 :
    IF s1.task[t].status # "pending" THEN Throw(s1, "TakeError")
    ELSE
    Then(IF Ok(s1) THEN Remove(s1, s1.task[t].taskQueue, t) ELSE s1, LAMBDA s2 :
      IF ~Ok(s2) THEN s2
      ELSE IF s2.task[t].preempt THEN AddToProcessing(s2, q, t)
      ELSE IF s2.task[t].queueTime <= s2.now THEN AddToPending(s2, q, t)
      ELSE AddToDelayed(s2, q, t))))

Take(s0, q, t) ==
  Then(s0, LAMBDA s :
  IF ~Ok(s) THEN s
  ELSE IF s.task[t].status # "pending" THEN Throw(s, "TakeError")
  ELSE
    Then(IF s.queue[q].processingSize = 0 THEN RequestFlush(s, q) ELSE s, LAMBDA s1 :
    Then(IF Ok(s1) THEN Remove(s1, s1.task[t].taskQueue, t) ELSE s1, LAMBDA s2 :
      IF ~Ok(s2) THEN s2
      ELSE IF s2.task[t].preempt THEN AddToProcessing(s2, q, t)
      ELSE IF s2.task[t].queueTime <= s2.now THEN AddToPending(s2, q, t)
      ELSE AddToDelayed(s2, q, t))))

\* the two branches of resetPersistentTask: the task becomes the tail of l
Relink(s0, q, l, t) ==
  Then(s0, LAMBDA s :
  IF ~Ok(s) THEN s
  ELSE
    LET n == s.queue[q][SizeF(l)]
        s1 == SetQ(s, q, SizeF(l), n + 1)
    IN IF n = 0
       THEN Dispose(SetQ(SetQ(s1, q, HeadF(l), t), q, TailF(l), t), t)
       ELSE LET tl == s1.queue[q][TailF(l)]
                s2 == SetT(s1, t, "prev", tl)
                s3 == SetT(s2, tl, "next", t)
            IN SetT(SetQ(s3, q, TailF(l), t), t, "next", None))

\* list l of q as resetPersistentTask(t) found it in s0 and left it in s
ObservedList(s0, s, q, l) ==
  [sizeWas |-> s0.queue[q][SizeF(l)], size |-> s.queue[q][SizeF(l)],
   headWas |-> s0.queue[q][HeadF(l)], head |-> s.queue[q][HeadF(l)],
   tailWas |-> s0.queue[q][TailF(l)], tail |-> s.queue[q][TailF(l)],
   last |-> IF s0.queue[q][TailF(l)] = None THEN None
            ELSE s.task[s0.queue[q][TailF(l)]].next]

\* what a resetPersistentTask(t) at time `time` made of state s0: s
Observed(s0, s, q, t, time) ==
  [t |-> t, time |-> time, ok |-> Ok(s), queueTime |-> s.task[t].queueTime,
   status |-> s.task[t].status, next |-> s.task[t].next, prev |-> s.task[t].prev,
   pending |-> ObservedList(s0, s, q, "pending"),
   delayed |-> ObservedList(s0, s, q, "delayed")]

ResetPersistentTask(s0, q, t) ==
  Then(s0, LAMBDA s :
  Then(Reset(s, t), LAMBDA s1 :
  Then(IF ~Ok(s1) THEN s1
       ELSE IF s1.task[t].createdTime = s1.task[t].queueTime
       THEN Relink(s1, q, "pending", t)
       ELSE Relink(s1, q, "delayed", t), LAMBDA s2 :
    IF ~Ok(s) THEN s2
    ELSE [s2 EXCEPT !.ghost.resets = Append(@, Observed(s, s2, q, t, s.now)),
                    !.ghost.made = IF s.flushing # NoQueue THEN @ \cup {t} ELSE @])))

(***************************************************************************)
(* TaskQueue: migration of pending and delayed tasks into processing.       *)
(***************************************************************************)
MovePendingToProcessing(s0, q) ==
  Then(s0, LAMBDA s :
  IF ~Ok(s) THEN s
  ELSE
    LET qr == s.queue[q]
        s1 == IF qr.processingSize = 0
              THEN [s EXCEPT !.queue[q].processingHead = qr.pendingHead,
                             !.queue[q].processingTail = qr.pendingTail,
                             !.queue[q].processingSize = qr.pendingSize]
              ELSE LET a == SetT(s, qr.processingTail, "next", qr.pendingHead)
                   IN IF ~Ok(a) THEN a
                      ELSE [a EXCEPT !.queue[q].processingTail = qr.pendingTail,
                                     !.queue[q].processingSize = @ + qr.pendingSize]
    IN IF ~Ok(s1) THEN s1
       ELSE [s1 EXCEPT !.queue[q].pendingHead = None, !.queue[q].pendingTail = None,
                       !.queue[q].pendingSize = 0])

\* the loop of moveDelayedToProcessing left out: only the head is promoted
DuePrefixHeadOnly(s, delayedTail, next, count, seen) == <<delayedTail, next, count>>

\* the loop of moveDelayedToProcessing without its test of queueTime, once
DuePrefixOneMore(s, delayedTail, next, count, seen) ==
  IF next # None THEN <<next, s.task[next].next, count + 1>>
  ELSE <<delayedTail, next, count>>

\* while (next !== void 0 && next.queueTime <= time) { delayedTail = next; ... ++count }
\* the result is <<delayedTail, next, count>>; count = 0 stands for a loop that
\* never ends (the next links form a cycle of due tasks)
RECURSIVE DuePrefix(_, _, _, _, _)
DuePrefix(s0, delayedTail, next, count, seen) ==
  Then(s0, LAMBDA s :
  IF next # None /\ s.task[next].queueTime <= s.now
  THEN IF next \in seen THEN <<delayedTail, next, 0>>
       ELSE DuePrefix(s, next, s.task[next].next, count + 1, seen \cup {next})
  ELSE <<delayedTail, next, count>>)

MoveDelayedToProcessing(s0, q) ==
  Then(s0, LAMBDA s :
  IF ~Ok(s) THEN s
  ELSE
    LET qr == s.queue[q]
        delayedHead == qr.delayedHead
    IN IF delayedHead = None THEN Throw(s, "TypeError")
       ELSE IF s.task[delayedHead].queueTime <= s.now
       THEN LET r == DuePrefix(s, delayedHead, s.task[delayedHead].next, 1, {delayedHead})
                delayedTail == r[1]
                next == r[2]
                count == r[3]
                s1 == IF qr.processingSize = 0
                      THEN [s EXCEPT !.queue[q].processingHead = delayedHead,
                                     !.queue[q].processingTail = delayedTail,
                                     !.queue[q].processingSize = count]
                      ELSE LET a == SetT(s, qr.processingTail, "next", delayedHead)
                           IN IF ~Ok(a) THEN a
                              ELSE [a EXCEPT !.queue[q].processingTail = delayedTail,
                                             !.queue[q].processingSize = @ + count]
            IN IF count = 0 THEN Throw(s, "Hang")
               ELSE IF ~Ok(s1) THEN s1
               ELSE [s1 EXCEPT !.queue[q].delayedHead = next,
                               !.queue[q].delayedSize = @ - count,
                               !.queue[q].delayedTail =
                                  IF qr.delayedSize - count = 0 THEN None ELSE @]
       ELSE s)

(***************************************************************************)
(* yield(): quiescence.                                                     *)
(***************************************************************************)
\* one of the three loops of hasNoMoreFiniteWork: "false" at the first task that
\* is not persistent, "hang" on a cycle of persistent tasks
RECURSIVE AllPersistent(_, _, _)
AllPersistent(s0, cur, seen) ==
  Then(s0, LAMBDA s :
  IF cur = None THEN "true"
  ELSE IF ~s.task[cur].persistent THEN "false"
  ELSE IF cur \in seen THEN "hang"
  ELSE AllPersistent(s, s.task[cur].next, seen \cup {cur}))

HasNoMoreFiniteWork(s0, q) ==
  Then(s0, LAMBDA s :
  IF s.queue[q].pendingAsyncCount > 0 THEN "false"
  ELSE
    LET a == AllPersistent(s, s.queue[q].processingHead, {})
        b == AllPersistent(s, s.queue[q].pendingHead, {})
        c == AllPersistent(s, s.queue[q].delayedHead, {})
    IN IF a # "true" THEN a ELSE IF b # "true" THEN b ELSE c)

\* if (this.yieldPromise !== void 0 && this.hasNoMoreFiniteWork) { ...; p.resolve() }
ResolveYield(s0, q) ==
  Then(s0, LAMBDA s :
  IF ~Ok(s) THEN s
  ELSE IF s.queue[q].yieldPromise
  THEN LET h == HasNoMoreFiniteWork(s, q)
       IN IF h = "hang" THEN Throw(s, "Hang")
          ELSE IF h = "true"
          THEN [s EXCEPT !.queue[q].yieldPromise = FALSE,
                         !.ghost.cycle =
                            IF s.ghost.watched[q] # None
                               /\ s.task[s.ghost.watched[q]].status # "canceled"
                            THEN @ \cup {<<q, s.ghost.watched[q], s.ghost.since[q]>>}
                            ELSE @,
                         !.ghost.watched[q] = None,
                         !.ghost.since[q] = 0,
                         !.ghost.yielded = @ \cup {q},
                         !.ghost.released[q] = s.ghost.waiters[q],
                         !.ghost.waiters[q] = 0]
          ELSE s
  ELSE s)

\* one more caller awaits this.yieldPromise
Await(s, q) == [s EXCEPT !.ghost.waiters[q] = IF @ < MaxAsync THEN @ + 1 ELSE @]

\* this.yieldPromise = createExposedPromise(): callers of the promise it replaces stay behind
\* history only: the persistent task queued last among those waiting in q
LastPersistent(s, q) ==
  LET P == {t \in Tasks : /\ s.task[t].status = "pending" /\ s.task[t].persistent
                          /\ s.ghost.home[t] = q}
  IN IF P = {} THEN None
     ELSE CHOOSE t \in P : \A u \in P : s.ghost.seq[u] <= s.ghost.seq[t]

CreateYieldPromise(s, q) ==
  [s EXCEPT !.queue[q].yieldPromise = TRUE,
            !.ghost.watched[q] = LastPersistent(s, q),
            !.ghost.since[q] = 0,
            !.ghost.stale[q] = IF @ + s.ghost.waiters[q] < MaxAsync
                               THEN @ + s.ghost.waiters[q] ELSE MaxAsync,
            !.ghost.waiters[q] = 0]

\* yield() that creates a promise on every call
YieldAlwaysCreates(s0, q) ==
  Then(s0, LAMBDA s :
  IF ~Ok(s) THEN s
  ELSE IF IsEmpty(s, q) THEN [s EXCEPT !.ghost.yielded = @ \cup {q}]
  ELSE Await(CreateYieldPromise(s, q), q))

\* async yield()
Yield(s0, q) ==
  Then(s0, LAMBDA s :
  IF ~Ok(s) THEN s
  ELSE IF IsEmpty(s, q) THEN [s EXCEPT !.ghost.yielded = @ \cup {q}]
  ELSE Await(IF ~s.queue[q].yieldPromise THEN CreateYieldPromise(s, q) ELSE s, q))

\* completeAsyncTask without the test of lines 344-348: any suspend task clears
\* the suspension
CompleteAsyncTaskUnchecked(s0, q, t) ==
  Then(s0, LAMBDA s :
  IF ~Ok(s) THEN s
  ELSE
    LET s1 == IF s.task[t].suspend
              THEN SetQ(s, q, "suspenderTask", None)
              ELSE SetQ(s, q, "pendingAsyncCount", s.queue[q].pendingAsyncCount - 1)
    IN Then(ResolveYield(s1, q), LAMBDA s2 :
         IF ~Ok(s2) THEN s2
         ELSE IF IsEmpty(s2, q) THEN QueueCancel(s2, q) ELSE s2))

(***************************************************************************)
(* TaskQueue.completeAsyncTask                                              *)
(***************************************************************************)
CompleteAsyncTask(s0, q, t) ==
  Then(s0, LAMBDA s :
  IF ~Ok(s) THEN s
  ELSE
    LET s1 == IF s.task[t].suspend
              THEN IF s.queue[q].suspenderTask # t
                   THEN Throw(s, "CompletionMismatch")
                   ELSE SetQ(s, q, "suspenderTask", None)
              ELSE SetQ(s, q, "pendingAsyncCount", s.queue[q].pendingAsyncCount - 1)
    IN Then(ResolveYield(s1, q), LAMBDA s2 :
         IF ~Ok(s2) THEN s2
         ELSE IF IsEmpty(s2, q) THEN QueueCancel(s2, q) ELSE s2))

(***************************************************************************)
(* Task.run, cut at the callback: RunBegin is run() up to the invocation of *)
(* the callback, RunEnd is what follows a result.                           *)
(***************************************************************************)
RunBegin(s0, t) ==
  Then(s0, LAMBDA s :
  IF ~Ok(s) THEN s
  ELSE IF s.task[t].status # "pending" THEN Throw(s, "RunError")
  ELSE
    Then(SetT(Remove(s, s.task[t].taskQueue, t), t, "status", "running"), LAMBDA s1 :
      IF ~Ok(s1) THEN s1
      ELSE [s1 EXCEPT !.ghost.invoked =
                         Append(@, [t |-> t, home |-> s.ghost.home[t],
                                    susp |-> s.queue[s.ghost.home[t]].suspenderTask,
                                    early |-> s.now < s.task[t].queueTime]),
                      !.ghost.ran[t] = TRUE,
                      !.ghost.twice = IF s.ghost.ran[t] /\ ~s.task[t].persistent
                                      THEN @ \cup {t} ELSE @,
                      !.ghost.rerun = IF t \in s.ghost.made THEN @ \cup {t} ELSE @,
                      !.ghost.since =
                         [q \in Queues |-> IF s.ghost.watched[q] = t /\ @[q] < 2
                                           THEN @[q] + 1 ELSE @[q]],
                      !.ghost.owed = @ \ {t},
                      !.ghost.due = @ \ {t}, !.ghost.prefix = @ \ {t}]))

\* the task's outcome once its result is there: a persistent task is reset and
\* re-linked, any other one is completed; a task canceled meanwhile stays canceled
Conclude(s0, t) ==
  Then(s0, LAMBDA s :
  IF ~Ok(s) THEN s
  ELSE IF s.task[t].status = "running"
  THEN IF s.task[t].persistent
       THEN ResetPersistentTask(s, s.task[t].taskQueue, t)
       ELSE Dispose(SetT(s, t, "status", "completed"), t)
  ELSE Dispose(s, t))

Pooled(s0, t) ==
  Then(s0, LAMBDA s :
  IF ~Ok(s) THEN s
  ELSE IF s.task[t].status # "pending" /\ s.task[t].reusable
  THEN ReturnToPool(s, s.task[t].taskQueue, t)
  ELSE s)

\* a synchronous result
RunEnd(s, t) == Pooled(Conclude(s, t), t)

\* the continuation of an asynchronous result
RunEndAsync(s0, t) ==
  Then(s0, LAMBDA s :
  IF ~Ok(s) THEN s
  ELSE Pooled(CompleteAsyncTask(Conclude([s EXCEPT !.task[t].promise = FALSE], t),
                                s.task[t].taskQueue, t), t))

(***************************************************************************)
(* TaskQueue.flush                                                          *)
(***************************************************************************)
\* the end of flush without lines 113-118: the yield waiter is left alone
FlushTailKeepsWaiter(s0, q) ==
  Then(s0, LAMBDA s :
  IF ~Ok(s) THEN s
  ELSE
    Then(IF s.queue[q].pendingSize > 0 THEN MovePendingToProcessing(s, q) ELSE s, LAMBDA s1 :
    Then(IF Ok(s1) /\ s1.queue[q].delayedSize > 0
         THEN MoveDelayedToProcessing(s1, q) ELSE s1, LAMBDA s2 :
    Then(IF ~Ok(s2) THEN s2
         ELSE IF s2.queue[q].processingSize > 0 THEN RequestFlush(s2, q)
         ELSE IF s2.queue[q].delayedSize > 0 \/ s2.queue[q].pendingAsyncCount > 0
         THEN RequestFlushClamped(s2, q)
         ELSE s2, LAMBDA s4 :
      IF ~Ok(s4) THEN s4
      ELSE [s4 EXCEPT !.flushing = NoQueue, !.running = None, !.ghost.made = {}]))))

\* the end of flush without the else-if of lines 108-110: no clamped request
FlushTailNoClamp(s0, q) ==
  Then(s0, LAMBDA s :
  IF ~Ok(s) THEN s
  ELSE
    Then(IF s.queue[q].pendingSize > 0 THEN MovePendingToProcessing(s, q) ELSE s, LAMBDA s1 :
    Then(IF Ok(s1) /\ s1.queue[q].delayedSize > 0
         THEN MoveDelayedToProcessing(s1, q) ELSE s1, LAMBDA s2 :
    Then(IF ~Ok(s2) THEN s2
         ELSE IF s2.queue[q].processingSize > 0 THEN RequestFlush(s2, q)
         ELSE s2, LAMBDA s3 :
    Then(ResolveYield(s3, q), LAMBDA s4 :
      IF ~Ok(s4) THEN s4
      ELSE [s4 EXCEPT !.flushing = NoQueue, !.running = None, !.ghost.made = {}])))))

\* lines 101-118: what follows the drain loop
FlushTail(s0, q) ==
  Then(s0, LAMBDA s :
  IF ~Ok(s) THEN s
  ELSE
    Then(IF s.queue[q].pendingSize > 0 THEN MovePendingToProcessing(s, q) ELSE s, LAMBDA s1 :
    Then(IF Ok(s1) /\ s1.queue[q].delayedSize > 0
         THEN MoveDelayedToProcessing(s1, q) ELSE s1, LAMBDA s2 :
    Then(IF ~Ok(s2) THEN s2
         ELSE IF s2.queue[q].processingSize > 0 THEN RequestFlush(s2, q)
         ELSE IF s2.queue[q].delayedSize > 0 \/ s2.queue[q].pendingAsyncCount > 0
         THEN RequestFlushClamped(s2, q)
         ELSE s2, LAMBDA s3 :
    Then(ResolveYield(s3, q), LAMBDA s4 :
      IF ~Ok(s4) THEN s4
      ELSE [s4 EXCEPT !.flushing = NoQueue, !.running = None, !.ghost.made = {}])))))

\* the suspend branch without its return: the drain loop goes on
AfterRunNoReturn(s0, q, cur) ==
  Then(s0, LAMBDA s :
  IF ~Ok(s) THEN s
  ELSE IF s.task[cur].status = "running"
  THEN IF s.task[cur].suspend
       THEN RequestFlushClamped(SetQ(s, q, "suspenderTask", cur), q)
       ELSE SetQ(s, q, "pendingAsyncCount", s.queue[q].pendingAsyncCount + 1)
  ELSE s)

\* lines 88-99: cur.run() has returned
AfterRun(s0, q, cur) ==
  Then(s0, LAMBDA s :
  IF ~Ok(s) THEN s
  ELSE IF s.task[cur].status = "running"
  THEN IF s.task[cur].suspend
       THEN [RequestFlushClamped(SetQ(s, q, "suspenderTask", cur), q)
               EXCEPT !.flushing = NoQueue, !.running = None, !.ghost.owed = {},
                      !.ghost.made = {},
                      !.ghost.prefix = {},
                      !.ghost.left[q] = WaitingSeq(s, q, "processing"),
                      !.ghost.during[q] = {},
                      !.ghost.polled = @ \ {q}]
       ELSE SetQ(s, q, "pendingAsyncCount", s.queue[q].pendingAsyncCount + 1)
  ELSE s)

\* while (this.processingSize > 0) { cur = this.processingHead; cur.run(); ... }
\* up to the invocation of the next user callback; the poke task's callback is
\* the microtask queue's requestFlush and is run here
RECURSIVE Drain(_, _)
Drain(s0, q) ==
  Then(s0, LAMBDA s :
  IF ~Ok(s) \/ s.flushing = NoQueue THEN s
  ELSE IF s.queue[q].processingSize > 0
  THEN LET cur == s.queue[q].processingHead
       IN IF cur = None THEN Throw(s, "TypeError")
          ELSE Then(RunBegin(s, cur), LAMBDA s1 :
                 IF ~Ok(s1) THEN s1
                 ELSE IF s1.task[cur].callback = "poke"
                 THEN Drain(AfterRun(RunEnd(RequestFlush(s1, MicroQ), cur), q, cur), q)
                 ELSE [s1 EXCEPT !.running = cur])
  ELSE FlushTail(s, q))

\* history only: the tasks queued with a delay that are due now and wait in the
\* delayed list of q, and those of them with no task that is not due ahead
RECURSIVE DueHead(_, _, _)
DueHead(s0, cur, seen) ==
  Then(s0, LAMBDA s :
  IF cur = None \/ cur \in seen \/ s.task[cur].queueTime > s.now THEN {}
  ELSE {cur} \cup DueHead(s, s.task[cur].next, seen \cup {cur}))

DueNow(s0, q) ==
  Then(s0, LAMBDA s :
  {t \in Waiting(s, q, "delayed") : s.ghost.delay[t] > 0 /\ s.task[t].queueTime <= s.now})

\* flush that takes a queue whose suspender was canceled for a queue that is
\* not suspended
FlushForgetsCanceled(s0, q) ==
  Then(s0, LAMBDA s :
  Then(SetQ(CancelPoke([s EXCEPT !.ghost.due = DueNow(s, q), !.ghost.prefix = {}], q),
            q, "flushRequested", FALSE), LAMBDA s1 :
    IF ~Ok(s1) THEN s1
    ELSE IF s1.queue[q].suspenderTask = None
            \/ s1.task[s1.queue[q].suspenderTask].status = "canceled"
    THEN Then(IF s1.queue[q].pendingSize > 0
              THEN MovePendingToProcessing(s1, q) ELSE s1, LAMBDA s2 :
         Then(IF Ok(s2) /\ s2.queue[q].delayedSize > 0
              THEN MoveDelayedToProcessing(s2, q) ELSE s2, LAMBDA s3 :
           IF ~Ok(s3) THEN s3
           ELSE Drain([s3 EXCEPT !.flushing = q,
                                 !.ghost.owed = Waiting(s3, q, "processing"),
                                 !.ghost.prefix =
                                    DueNow(s, q) \cap DueHead(s, s.queue[q].delayedHead, {})],
                      q)))
    ELSE RequestFlushClamped([s1 EXCEPT !.ghost.polled = @ \cup {q}], q)))

\* flush that moves the pending tasks on although the queue is suspended
FlushMigratesSuspended(s0, q) ==
  Then(s0, LAMBDA s :
  Then(SetQ(CancelPoke([s EXCEPT !.ghost.due = DueNow(s, q), !.ghost.prefix = {}], q),
            q, "flushRequested", FALSE), LAMBDA s1 :
    IF ~Ok(s1) THEN s1
    ELSE IF s1.queue[q].suspenderTask = None
    THEN Then(IF s1.queue[q].pendingSize > 0
              THEN MovePendingToProcessing(s1, q) ELSE s1, LAMBDA s2 :
         Then(IF Ok(s2) /\ s2.queue[q].delayedSize > 0
              THEN MoveDelayedToProcessing(s2, q) ELSE s2, LAMBDA s3 :
           IF ~Ok(s3) THEN s3
           ELSE Drain([s3 EXCEPT !.flushing = q,
                                 !.ghost.owed = Waiting(s3, q, "processing"),
                                 !.ghost.prefix =
                                    DueNow(s, q) \cap DueHead(s, s.queue[q].delayedHead, {})],
                      q)))
    ELSE RequestFlushClamped(
           IF s1.queue[q].pendingSize > 0
           THEN MovePendingToProcessing([s1 EXCEPT !.ghost.polled = @ \cup {q}], q)
           ELSE [s1 EXCEPT !.ghost.polled = @ \cup {q}], q)))

Flush(s0, q) ==
  Then(s0, LAMBDA s :
  Then(SetQ(CancelPoke([s EXCEPT !.ghost.due = DueNow(s, q), !.ghost.prefix = {}], q),
            q, "flushRequested", FALSE), LAMBDA s1 :
    IF ~Ok(s1) THEN s1
    ELSE IF s1.queue[q].suspenderTask = None
    THEN Then(IF s1.queue[q].pendingSize > 0
              THEN MovePendingToProcessing(s1, q) ELSE s1, LAMBDA s2 :
         Then(IF Ok(s2) /\ s2.queue[q].delayedSize > 0
              THEN MoveDelayedToProcessing(s2, q) ELSE s2, LAMBDA s3 :
           IF ~Ok(s3) THEN s3
           ELSE Drain([s3 EXCEPT !.flushing = q,
                                 !.ghost.owed = Waiting(s3, q, "processing"),
                                 !.ghost.prefix =
                                    DueNow(s, q) \cap DueHead(s, s.queue[q].delayedHead, {})],
                      q)))
    ELSE RequestFlushClamped([s1 EXCEPT !.ghost.polled = @ \cup {q}], q)))

\* an exception leaves flush(): nothing of it stays on the stack
Unwind(s0) ==
  Then(s0, LAMBDA s :
  IF Ok(s) THEN s
  ELSE [s EXCEPT !.flushing = NoQueue, !.running = None, !.ghost.made = {}])

(***************************************************************************)
(* The actions.                                                             *)
(***************************************************************************)
TypeOK ==
  /\ now \in 0..MaxTime
  /\ DOMAIN task = Tasks
  /\ DOMAIN queue = Queues
  /\ \A q \in Queues : host[q] \in 0..MaxHost
  /\ flushing \in Queues \cup {NoQueue}
  /\ running \in Tasks \cup {None}

Init ==
  /\ now = 0
  /\ task = [t \in Tasks |-> FreeTask]
  /\ queue = [q \in Queues |-> NewQueue]
  /\ host = [q \in Queues |-> 0]
  /\ flushing = NoQueue
  /\ running = None
  /\ err = "none"
  /\ ghost = NewGhost

\* the state an action starts from: the events of the last action are forgotten
Begin ==
  [Cur EXCEPT !.err = "none", !.ghost.invoked = << >>, !.ghost.yielded = {},
              !.ghost.released = [q \in Queues |-> 0], !.ghost.resets = << >>,
              !.ghost.handed = << >>, !.ghost.again = {}, !.ghost.cycle = {}]

\* the size counters stay within the range the model follows them in
InRange(r) ==
  \A q \in Queues, l \in Lists :
    r.queue[q][SizeF(l)] \in (0 - MaxSkew)..(MaxTasks + MaxSkew)

Commit(r0) ==
  \E r \in {r0} :
    /\ r.err # "NoSlot"
    /\ InRange(r)
    /\ now' = r.now
    /\ task' = r.task
    /\ queue' = r.queue
    /\ host' = r.host
    /\ flushing' = r.flushing
    /\ running' = r.running
    /\ err' = r.err
    /\ ghost' = r.ghost

TopLevel == running = None
Constructed(t) == task[t].status # "free"

Options(delays, preempts, persistents, reusables, suspends) ==
  [delay : delays, preempt : preempts, persistent : persistents,
   reusable : reusables, suspend : suspends]

\* a consumer (or the executing callback) calls q.queueTask(callback, o);
\* n bounds the number of such calls
QueueTaskCallN(q, o, n) ==
  /\ ghost.nq < n
  /\ \E r \in {QueueTask(Begin, q, o, "user")} :
       LET t == QueueTaskResult(Begin, q, o)
       IN Commit(IF Ok(r)
                 THEN [r EXCEPT !.ghost.live = @ \cup {t},
                                !.ghost.during[q] =
                                   IF queue[q].suspenderTask # None /\ PlaceOf(o) = "pending"
                                   THEN @ \cup {t} ELSE @,
                                !.ghost.made =
                                   IF flushing # NoQueue /\ ~o.preempt
                                   THEN @ \cup {t} ELSE @ \ {t},
                                !.ghost.ahead[t] =
                                   IF o.preempt THEN Waiting(Begin, q, "processing") ELSE {},
                                !.ghost.behind[t] =
                                   IF o.preempt /\ TopLevel
                                   THEN Waiting(Begin, q, "pending") ELSE {}]
                 ELSE r)

QueueTaskCall(q, o) == QueueTaskCallN(q, o, MaxQueued)

\* the Task objects consumers hold: the scheduler keeps its poke task to itself
Handle(t) == Constructed(t) /\ task[t].callback = "user"

\* a consumer (or the executing callback) calls q.take(t), t a task of another queue
TakeCall(q, t) ==
  /\ Handle(t)
  /\ ghost.home[t] # q
  /\ ghost.nt < MaxTakes
  /\ \E r \in {Take([Begin EXCEPT !.ghost.nt = @ + 1], q, t)} :
       Commit(IF Ok(r) THEN [r EXCEPT !.ghost.home[t] = q, !.ghost.taken[t] = TRUE]
              ELSE r)

\* a consumer (or a callback, of another task) calls t.cancel()
CancelCall(t) ==
  /\ Handle(t)
  /\ t # running
  /\ Commit(TaskCancel(Begin, t))

\* a consumer calls q.cancel()
QueueCancelCall(q) == \E r \in {QueueCancel(Begin, q)} : Commit(r)

\* a consumer calls q.yield()
YieldCall(q) == \E r \in {Yield(Begin, q)} : Commit(r)

\* the clock advances
Tick ==
  /\ now < MaxTime
  /\ Commit([Begin EXCEPT !.now = now + 1])

\* the host fires a requested flush of q
HostFlush(q) ==
  /\ TopLevel
  /\ host[q] > 0
  /\ Commit(Unwind(Flush([Begin EXCEPT !.host[q] = @ - 1], q)))

\* the executing callback returns a value: run() finishes and the drain loop goes on
ReturnSync ==
  /\ running # None
  /\ Commit(Unwind(Drain(AfterRun(RunEnd([Begin EXCEPT !.running = None], running),
                                  flushing, running), flushing)))

\* the executing callback returns a promise
ReturnAsync ==
  /\ running # None
  /\ Commit(Unwind(Drain(AfterRun([Begin EXCEPT !.running = None,
                                                !.task[running].promise = TRUE],
                                  flushing, running), flushing)))

\* the promise a callback returned settles
Settle(t) ==
  /\ TopLevel
  /\ task[t].promise
  /\ Commit(RunEndAsync(Begin, t))

AllOptions == Options(0..MaxDelay, BOOLEAN, BOOLEAN, BOOLEAN, BOOLEAN)

Next ==
  \/ \E q \in Queues, o \in AllOptions : QueueTaskCall(q, o)
  \/ \E q \in Queues, t \in Tasks : TakeCall(q, t)
  \/ \E t \in Tasks : CancelCall(t)
  \/ \E q \in Queues : QueueCancelCall(q)
  \/ \E q \in Queues : YieldCall(q)
  \/ Tick
  \/ \E q \in Queues : HostFlush(q)
  \/ ReturnSync
  \/ ReturnAsync
  \/ \E t \in Tasks : Settle(t)

Spec == Init /\ [][Next]_vars

(***************************************************************************)
(* SpecOrder: one queue (the macrotask queue), zero-delay tasks, preempt    *)
(* and reusable at the caller's choice, synchronous callbacks, and          *)
(* cancellation: from outside a flush and from inside a callback.           *)
(***************************************************************************)
OrderOptions == Options({0}, BOOLEAN, {FALSE}, BOOLEAN, {FALSE})

NextOrder ==
  \/ \E o \in OrderOptions : QueueTaskCall(MacroQ, o)
  \/ \E t \in Tasks : CancelCall(t)
  \/ HostFlush(MacroQ)
  \/ ReturnSync

SpecOrder == Init /\ [][NextOrder]_vars

(***************************************************************************)
(* SpecFifo: one queue, zero-delay tasks; consumers queue tasks between     *)
(* flushes, callbacks cancel other tasks and queue reusable follow-up work. *)
(***************************************************************************)
NextFifo ==
  \/ TopLevel /\ \E o \in OrderOptions : QueueTaskCallN(MacroQ, o, MaxQueuedFifo)
  \/ ~TopLevel /\ \E o \in Options({0}, {FALSE}, {FALSE}, {TRUE}, {FALSE}) :
                     QueueTaskCallN(MacroQ, o, MaxQueuedFifo)
  \/ ~TopLevel /\ \E t \in Tasks : CancelCall(t)
  \/ HostFlush(MacroQ)
  \/ ReturnSync

SpecFifo == Init /\ [][NextFifo]_vars

\* a task of a consumer that was queued with preempt=false and delay=0 and was
\* neither canceled nor taken away
Plain(t) ==
  /\ t \in ghost.live
  /\ ~task[t].preempt
  /\ ghost.delay[t] = 0
  /\ ~ghost.cancelled[t]
  /\ ~ghost.taken[t]

(* C1: FIFO within a queue.  For two tasks A and B queued on the same queue   *)
(* with preempt=false and delay=0, A before B, neither canceled nor taken     *)
(* away: if B's callback has been invoked, A's has been invoked before.       *)
C1_Fifo ==
  \A a, b \in Tasks :
    ( /\ Plain(a) /\ Plain(b)
      /\ ghost.home[a] = ghost.home[b]
      /\ ghost.seq[a] < ghost.seq[b]
      /\ ghost.ran[b] )
    => ghost.ran[a]

(* C2: once cancel() was called on a pending task its callback is not        *)
(* invoked, and a flush during which tasks were canceled still runs every     *)
(* other task it took on: when the flush is over (and the queue is not        *)
(* suspended) no task it took on is left that was neither run nor canceled.   *)
C2_CancelStops ==
  /\ \A i \in DOMAIN ghost.invoked : ~ghost.cancelled[ghost.invoked[i].t]
  /\ flushing = NoQueue => ghost.owed = {}

(* C5: a preempt task runs before every task that was waiting in the         *)
(* processing list when it was queued.                                        *)
C5_PreemptFront ==
  \A f \in Tasks : \A b \in ghost.ahead[f] :
    (f \in ghost.live /\ ~ghost.cancelled[f] /\ ghost.ran[b]) => ghost.ran[f]

(* C6: a preempt task queued while no flush is in progress runs before every *)
(* zero-delay task that was waiting in the pending list when it was queued.   *)
C6_PreemptBeforePending ==
  \A f \in Tasks : \A b \in ghost.behind[f] :
    (f \in ghost.live /\ ~ghost.cancelled[f] /\ ~ghost.taken[f] /\ ghost.ran[b])
    => ghost.ran[f]

\* the scenario of C6 has happened: pending A, B, then preempt f, and all ran
C6_Witness ==
  \E f \in Tasks :
    /\ Cardinality(ghost.behind[f]) >= 2
    /\ ghost.ran[f]
    /\ \A b \in ghost.behind[f] : ghost.ran[b]

(***************************************************************************)
(* SpecTake: both queues, delayed, persistent and preempt tasks, take       *)
(* between the queues, the clock, synchronous callbacks.                    *)
(***************************************************************************)
TakeOptions == Options({0, MaxDelay}, {FALSE}, BOOLEAN, {FALSE}, {FALSE})

NextTake ==
  \/ \E q \in Queues, o \in TakeOptions : QueueTaskCallN(q, o, MaxQueuedTake)
  \/ \E q \in Queues, t \in Tasks : TakeCall(q, t)
  \/ Tick
  \/ \E q \in Queues : HostFlush(q)
  \/ ReturnSync

SpecTake == Init /\ [][NextTake]_vars

(* C3: no callback is invoked at a clock time smaller than the queueTime of  *)
(* its task, in any sequence of queueTask, take, flush and clock advances.    *)
C3_NeverEarly ==
  \A i \in DOMAIN ghost.invoked : ~ghost.invoked[i].early

(***************************************************************************)
(* SpecDelay: one queue (the macrotask queue), delayed, persistent and      *)
(* suspend tasks, the clock, synchronous and asynchronous callbacks.        *)
(***************************************************************************)
DelayOptions == Options(0..MaxDelay, {FALSE}, {FALSE}, {FALSE}, BOOLEAN)

NextDelay ==
  \/ \E o \in DelayOptions : QueueTaskCallN(MacroQ, o, MaxQueuedDelay)
  \/ Tick
  \/ HostFlush(MacroQ)
  \/ ReturnSync
  \/ ReturnAsync
  \/ \E t \in Tasks : Settle(t)

SpecDelay == Init /\ [][NextDelay]_vars

SuspendOptions == Options({0}, BOOLEAN, {FALSE}, {FALSE}, BOOLEAN)

NextSuspend ==
  \/ \E q \in Queues, o \in SuspendOptions : QueueTaskCallN(q, o, MaxQueuedSuspend)
  \/ \E q \in Queues : HostFlush(q)
  \/ ReturnSync
  \/ ReturnAsync
  \/ \E t \in Tasks : Settle(t)

SpecSuspend == Init /\ [][NextSuspend]_vars

(* C7: while the suspenderTask of a queue is set, no task of that queue has  *)
(* its callback invoked.                                                      *)
C7_NoRunWhileSuspended ==
  \A i \in DOMAIN ghost.invoked : ghost.invoked[i].susp = None

\* a flush has found the queue suspended while tasks wait in processing and
\* other tasks were queued during the suspension
C7_Witness ==
  \E q \in Queues :
    /\ queue[q].suspenderTask # None
    /\ q \in ghost.polled
    /\ Waiting(Cur, q, "processing") # {}
    /\ ghost.during[q] # {}

(***************************************************************************)
(* SpecResume: zero-delay tasks on both queues; those of the macrotask      *)
(* queue suspend, those of the microtask queue may.  The host fires the     *)
(* flushes it was asked for, callbacks return and the promises of the       *)
(* microtask queue's tasks settle; the promise of a task of the macrotask   *)
(* queue may stay unsettled.                                                *)
(***************************************************************************)
SuspendingOptions == Options({0}, {FALSE}, {FALSE}, {FALSE}, {TRUE})
ResumeOptions == Options({0}, {FALSE}, {FALSE}, {FALSE}, BOOLEAN)

\* a suspending callback returns a promise
ReturnPromise == running # None /\ task[running].suspend /\ ReturnAsync

SettleMicro(t) == ghost.home[t] = MicroQ /\ Settle(t)

NextResume ==
  \/ TopLevel /\ \E o \in SuspendingOptions : QueueTaskCallN(MacroQ, o, MaxQueuedLocal)
  \/ TopLevel /\ \E o \in ResumeOptions : QueueTaskCallN(MicroQ, o, MaxQueuedLocal)
  \/ \E q \in Queues : HostFlush(q)
  \/ ReturnSync
  \/ ReturnPromise
  \/ \E t \in Tasks : Settle(t)

SpecResume ==
  /\ Init /\ [][NextResume]_vars
  /\ \A q \in Queues : WF_vars(HostFlush(q))
  /\ WF_vars(ReturnSync \/ ReturnPromise)
  /\ \A t \in Tasks : WF_vars(SettleMicro(t))

\* the tasks left in processing by a suspension run in their order, and before
\* the tasks queued to pending during the suspension
LeftInOrder ==
  \A q \in Queues :
    LET left == ghost.left[q]
    IN /\ \A i, j \in DOMAIN left : (i < j /\ ghost.ran[left[j]]) => ghost.ran[left[i]]
       /\ \A d \in ghost.during[q] :
            ghost.ran[d] => \A i \in DOMAIN left : ghost.ran[left[i]]

InLeft(q, t) == \E i \in DOMAIN ghost.left[q] : ghost.left[q][i] = t

(* C8: once the suspend task has settled (suspenderTask is cleared), the     *)
(* tasks the suspension left waiting in the processing list are eventually    *)
(* run, in their order and before the tasks queued to pending during the      *)
(* suspension.                                                                *)
C8_Resume ==
  /\ []LeftInOrder
  /\ \A q \in Queues, t \in Tasks :
       (InLeft(q, t) /\ ~ghost.ran[t] /\ queue[q].suspenderTask = None)
          ~> (ghost.ran[t] \/ ~InLeft(q, t))

(***************************************************************************)
(* SpecLocal: suspending tasks on the macrotask queue, zero-delay and       *)
(* delayed tasks that do not suspend on the microtask queue.  The host      *)
(* fires the flushes it was asked for, the clock advances and callbacks     *)
(* return; the promise of a suspending task may stay unsettled.             *)
(***************************************************************************)
LocalOptions == Options({0, 1}, {FALSE}, {FALSE}, {FALSE}, {FALSE})

NextLocal ==
  \/ TopLevel /\ \E o \in SuspendingOptions : QueueTaskCallN(MacroQ, o, MaxQueuedLocal)
  \/ TopLevel /\ \E o \in LocalOptions : QueueTaskCallN(MicroQ, o, MaxQueuedLocal)
  \/ Tick
  \/ \E q \in Queues : HostFlush(q)
  \/ ReturnSync
  \/ ReturnPromise
  \/ \E t \in Tasks : Settle(t)

SpecLocal ==
  /\ Init /\ [][NextLocal]_vars
  /\ \A q \in Queues : WF_vars(HostFlush(q))
  /\ WF_vars(ReturnSync \/ ReturnPromise)
  /\ WF_vars(Tick)

\* t was queued on q by a caller, has not run and is due
DueOn(q, t) ==
  /\ Handle(t)
  /\ ghost.home[t] = q
  /\ task[t].status = "pending"
  /\ task[t].queueTime <= now

(* C9: whether or not the macrotask queue is blocked by an unsettled suspend *)
(* task, every task of the microtask queue that is due is eventually run.     *)
C9_QueueLocal ==
  \A t \in Tasks : DueOn(MicroQ, t) ~> ghost.ran[t]

(***************************************************************************)
(* SpecYield: zero-delay tasks on the macrotask queue, persistent or not,   *)
(* with synchronous and asynchronous callbacks, and callers of yield().     *)
(***************************************************************************)
YieldOptions == Options({0}, {FALSE}, BOOLEAN, {FALSE}, BOOLEAN)

NextYield ==
  \/ \E o \in YieldOptions : QueueTaskCallN(MacroQ, o, MaxQueuedYield)
  \/ YieldCall(MacroQ)
  \/ HostFlush(MacroQ)
  \/ ReturnSync
  \/ ReturnAsync
  \/ \E t \in Tasks : Settle(t)

SpecYield == Init /\ [][NextYield]_vars

\* the queue has no more finite work
Quiescent(q) ==
  /\ queue[q].pendingAsyncCount = 0
  /\ \A l \in Lists : \A t \in Chain(Cur, queue[q][HeadF(l)], {}) : task[t].persistent

(* C10: at the moment a call to yield() completes, pendingAsyncCount is 0    *)
(* and every task in the processing, pending and delayed lists is persistent. *)
C10_YieldQuiescent ==
  \A q \in ghost.yielded : Quiescent(q)

(***************************************************************************)
(* SpecWait: zero-delay tasks on the macrotask queue, persistent or not,    *)
(* callers of yield() and of Task.cancel().  The host fires the flushes it  *)
(* was asked for, callbacks return and promises settle: a continuation that *)
(* is ready runs the next time no callback is executing.                    *)
(***************************************************************************)
WaitOptions == Options({0}, {FALSE}, BOOLEAN, {FALSE}, {FALSE})

NextWait ==
  \/ \E o \in WaitOptions : QueueTaskCallN(MacroQ, o, MaxQueuedWait)
  \/ YieldCall(MacroQ)
  \/ \E t \in Tasks : CancelCall(t)
  \/ HostFlush(MacroQ)
  \/ ReturnSync
  \/ ReturnAsync
  \/ \E t \in Tasks : Settle(t)

SpecWait ==
  /\ Init /\ [][NextWait]_vars
  /\ WF_vars(HostFlush(MacroQ))
  /\ WF_vars(ReturnSync \/ ReturnAsync)
  /\ \A t \in Tasks : SF_vars(Settle(t))

(* C11: a yield() waiter that is outstanding while the queue has no more     *)
(* finite work is eventually resolved.                                        *)
C11_WaiterResolved ==
  \A q \in Queues :
    (queue[q].yieldPromise /\ Quiescent(q)) ~> ~queue[q].yieldPromise

(* C12: a queue holds at most one yield waiter: every caller that has not    *)
(* been released awaits the waiter the queue holds, a resolution releases all *)
(* of them and leaves the slot empty.                                         *)
C12_OneWaiter ==
  \A q \in Queues :
    /\ ghost.stale[q] = 0
    /\ queue[q].yieldPromise <=> ghost.waiters[q] > 0
    /\ ghost.released[q] > 0 => ~queue[q].yieldPromise

\* one resolution has released two callers of yield()
C12_Witness ==
  \E q \in Queues : ghost.released[q] = 2 /\ ~queue[q].yieldPromise /\ ~IsEmpty(Cur, q)

\* the processing, pending and delayed lists of q hold no task
ListsEmpty(q) == \A l \in Lists : queue[q][HeadF(l)] = None

NeverCompleted ==
  \A t \in Tasks :
    (Handle(t) /\ task[t].persistent /\ ~ghost.cancelled[t]) => task[t].status # "completed"

(* C14: a persistent task that is not canceled never reaches status          *)
(* completed, and each time it waits in a list and is due it is run again.    *)
C14_PersistentRecurs ==
  /\ []NeverCompleted
  /\ \A t \in Tasks :
       (Handle(t) /\ task[t].persistent /\ task[t].status = "pending" /\ task[t].queueTime <= now)
          ~> (running = t \/ task[t].status = "canceled")

(***************************************************************************)
(* Persistent tasks with and without delay on the macrotask queue, run,    *)
(* canceled and re-linked as time passes.                                  *)
(***************************************************************************)
ResetOptions == Options({0, 1}, {FALSE}, BOOLEAN, {FALSE}, {FALSE})

NextReset ==
  \/ \E o \in ResetOptions : QueueTaskCallN(MacroQ, o, MaxQueuedReset)
  \/ \E t \in Tasks : CancelCall(t)
  \/ Tick
  \/ HostFlush(MacroQ)
  \/ ReturnSync

SpecReset == Init /\ [][NextReset]_vars

\* the reset r put its task at the tail of list l and left list o alone
AtTail(r, l, o) ==
  /\ l.tail = r.t /\ r.next = None /\ l.size = l.sizeWas + 1
  /\ IF l.sizeWas = 0 THEN l.head = r.t
     ELSE l.head = l.headWas /\ l.last = r.t /\ r.prev = l.tailWas
  /\ o.head = o.headWas /\ o.tail = o.tailWas /\ o.size = o.sizeWas

(* C15: resetPersistentTask sets queueTime to the time of the reset plus the *)
(* delay the task was queued with and links the task at the tail of the       *)
(* pending list if that delay is 0 and of the delayed list otherwise, the     *)
(* size of that list growing by one and the other list staying as it was.     *)
C15_ResetRelinks ==
  \A i \in DOMAIN ghost.resets :
    LET r == ghost.resets[i]
    IN /\ r.ok /\ r.status = "pending"
       /\ r.queueTime = r.time + ghost.delay[r.t]
       /\ IF ghost.delay[r.t] = 0 THEN AtTail(r, r.pending, r.delayed)
          ELSE AtTail(r, r.delayed, r.pending)

(* C16: a queueTask with reusable=true on a queue whose pool is not empty     *)
(* returns the Task object that was pooled last and takes it out of the pool; *)
(* with an empty pool, or with reusable=false, it returns a new Task object   *)
(* and leaves the pool as it was; no pool holds a non-reusable task.          *)
C16_PoolReuse ==
  /\ \A i \in DOMAIN ghost.handed :
       LET r == ghost.handed[i]
           n == Len(r.poolWas)
       IN IF r.reusable /\ n > 0
          THEN r.t = r.poolWas[n] /\ r.pool = SubSeq(r.poolWas, 1, n - 1) /\ ~r.fresh
          ELSE r.fresh /\ r.pool = r.poolWas
  /\ \A q \in Queues : \A i \in DOMAIN queue[q].taskPool :
       task[queue[q].taskPool[i]].reusable

\* a reusable queueTask found two distinct Task objects in the pool
C16_Witness ==
  \E i \in DOMAIN ghost.handed :
    LET r == ghost.handed[i]
    IN r.reusable /\ Len(r.poolWas) = 2 /\ r.poolWas[1] # r.poolWas[2]

(***************************************************************************)
(* Both queues, every combination of delay, preempt, persistent and        *)
(* reusable, the rejected ones included.                                   *)
(***************************************************************************)
ValidateOptions == Options({0, 1}, BOOLEAN, BOOLEAN, BOOLEAN, {FALSE})

NextValidate ==
  \/ \E q \in Queues, o \in ValidateOptions : QueueTaskCallN(q, o, MaxQueuedValidate)
  \/ \E q \in Queues : HostFlush(q)
  \/ ReturnSync

SpecValidate == Init /\ [][NextValidate]_vars

\* the combinations queueTask is said to reject
Invalid(q, o) ==
  \/ o.preempt /\ o.delay > 0
  \/ o.preempt /\ o.persistent
  \/ o.persistent /\ q = MicroQ

(* C17: a queueTask call with preempt and a delay above 0, with preempt and   *)
(* persistent, or with persistent on the microtask queue raises an error and  *)
(* leaves lists, sizes, task pool, tasks and flush requests as they were;     *)
(* a call with any other combination raises no error and returns a task.      *)
C17_RejectsBeforeMutation ==
  [][\A q \in Queues, o \in ValidateOptions :
       QueueTaskCallN(q, o, MaxQueuedValidate) =>
         IF Invalid(q, o)
         THEN err' = "InvalidArguments" /\ queue' = queue /\ task' = task /\ host' = host
         ELSE err' = "none" /\ ghost'.nq = ghost.nq + 1 /\ Len(ghost'.handed) > 0]_vars

\* a call was rejected on queues that had tasks running before and no flush
\* requested: the flush request of an accepted call would show
C17_Witness ==
  /\ err = "InvalidArguments"
  /\ \E t \in Tasks : Constructed(t)
  /\ \A q \in Queues : queue[q].processingSize = 0 /\ ~queue[q].flushRequested /\ host[q] = 0

(* C18: take(t) of a task whose status is not pending raises an error and     *)
(* leaves the taking queue, the queue that holds the task, the tasks and the  *)
(* flush requests as they were.                                               *)
C18_TakeNonPending ==
  [][\A q \in Queues, t \in Tasks :
       (Constructed(t) /\ task[t].status # "pending" /\ TakeCall(q, t)) =>
         err' = "TakeError" /\ queue' = queue /\ task' = task /\ host' = host]_vars

\* a take was refused on queues that had no flush requested, after a task
\* had completed
C18_Witness ==
  /\ err = "TakeError"
  /\ \E t \in Tasks : task[t].status = "completed"
  /\ \A q \in Queues : queue[q].processingSize = 0 /\ ~queue[q].flushRequested /\ host[q] = 0

\* the tasks of list l of q in state s, from the head along the next links
ListOf(s, q, l) == ChainSeq(s, s.queue[q][HeadF(l)], {})

InList(s, q, l, t) == \E i \in DOMAIN ListOf(s, q, l) : ListOf(s, q, l)[i] = t

Without(seq, t) == SelectSeq(seq, LAMBDA u : u # t)

\* the list of the taking queue a taken task belongs in
TargetOf(t) ==
  IF task[t].preempt THEN "processing"
  ELSE IF task[t].queueTime <= now THEN "pending" ELSE "delayed"

(* C19: take(t) by queue q of a pending task that is in a list of the other   *)
(* queue p raises no error; afterwards t is in no list of p and in exactly    *)
(* one list of q (processing if preempt, pending if queueTime <= now, else    *)
(* delayed), the size of the list of p that held t is one smaller and that of *)
(* the list of q that holds it one larger, all other sizes are as before, and *)
(* every list of both queues holds its other tasks in the order it had.       *)
C19_TakeMoves ==
  [][\A q \in Queues, t \in Tasks :
       LET p == 1 - q
       IN (/\ Handle(t) /\ task[t].status = "pending"
           /\ \E l \in Lists : InList(Cur, p, l, t)
           /\ TakeCall(q, t)) =>
          /\ err' = "none"
          /\ \A l \in Lists :
               /\ ~InList(Cur', p, l, t)
               /\ InList(Cur', q, l, t) <=> l = TargetOf(t)
               /\ queue'[p][SizeF(l)] =
                    queue[p][SizeF(l)] - (IF InList(Cur, p, l, t) THEN 1 ELSE 0)
               /\ queue'[q][SizeF(l)] =
                    queue[q][SizeF(l)] + (IF l = TargetOf(t) THEN 1 ELSE 0)
               /\ \A r \in Queues :
                    Without(ListOf(Cur', r, l), t) = Without(ListOf(Cur, r, l), t)]_vars

(* C20: after q.take(t) the queue recorded in the task (task.taskQueue) is q, *)
(* the queue that holds the task, as long as the task is not queued anew.     *)
C20_OwnerFollows ==
  \A t \in Tasks :
    (Handle(t) /\ ghost.taken[t]) => task[t].taskQueue = ghost.home[t]

(* C21: no persistent task is in a list of the microtask queue, whatever      *)
(* queueTask, take, flush and clock steps went before.                        *)
C21_NoPersistentOnMicro ==
  \A t \in Tasks, l \in Lists :
    (Constructed(t) /\ task[t].persistent) => ~InList(Cur, MicroQ, l, t)

(***************************************************************************)
(* Preempt, zero-delay and delayed tasks of the macrotask queue, and       *)
(* consumers that call remove(task) on either queue.                       *)
(***************************************************************************)
RemoveOptions == Options({0, 1}, BOOLEAN, {FALSE}, {FALSE}, {FALSE})

\* a consumer calls q.remove(t)
RemoveCall(q, t) ==
  /\ Handle(t)
  /\ \E r \in {Remove(Begin, q, t)} : Commit(r)

NextRemove ==
  \/ \E o \in RemoveOptions : QueueTaskCallN(MacroQ, o, MaxQueuedRemove)
  \/ TopLevel /\ \E q \in Queues, t \in Tasks : RemoveCall(q, t)
  \/ Tick
  \/ \E q \in Queues : HostFlush(q)
  \/ ReturnSync

SpecRemove == Init /\ [][NextRemove]_vars

(* C22: q.remove(t) of a task that is in none of the three lists of q raises  *)
(* the 'could not be found' error and leaves the queues and the tasks as they *)
(* were, whether the task is preempt or not and whatever its queueTime.       *)
C22_RemoveAbsent ==
  [][\A q \in Queues, t \in Tasks :
       ((\A l \in Lists : ~InList(Cur, q, l, t)) /\ RemoveCall(q, t)) =>
         err' = "TaskNotFound" /\ queue' = queue /\ task' = task]_vars

(***************************************************************************)
(* Both queues, zero-delay and delayed tasks, reusable or not; consumers   *)
(* cancel tasks, finished ones included, and cancel the queues' flushes.   *)
(***************************************************************************)
CancelOptions == Options({0, 1}, {FALSE}, {FALSE}, BOOLEAN, {FALSE})

Finished(t) == task[t].status \in {"canceled", "completed"}

\* a consumer calls t.cancel(); the history notes a call on a finished task
CancelNoted(t) ==
  /\ Handle(t)
  /\ t # running
  /\ \E r \in {TaskCancel(Begin, t)} :
       Commit(IF Finished(t) THEN [r EXCEPT !.ghost.again = {t}] ELSE r)

NextCancel ==
  \/ \E q \in Queues, o \in CancelOptions : QueueTaskCallN(q, o, MaxQueuedCancel)
  \/ \E t \in Tasks : CancelNoted(t)
  \/ \E q \in Queues : QueueCancelCall(q)
  \/ Tick
  \/ \E q \in Queues : HostFlush(q)
  \/ ReturnSync

SpecCancel == Init /\ [][NextCancel]_vars

OwnWork(s, q) ==
  [lists |-> [l \in Lists |-> <<s.queue[q][HeadF(l)], s.queue[q][TailF(l)], s.queue[q][SizeF(l)]>>],
   pendingAsyncCount |-> s.queue[q].pendingAsyncCount,
   suspenderTask |-> s.queue[q].suspenderTask,
   yieldPromise |-> s.queue[q].yieldPromise,
   status |-> [t \in Tasks |-> IF s.task[t].callback = "poke" THEN "poke" ELSE s.task[t].status]]

(* C24: q.cancel() raises no error, leaves no flush requested and no poke     *)
(* task recorded for q, and changes neither the lists of q, pendingAsyncCount *)
(* and suspenderTask, nor the status of any task of a consumer; called when   *)
(* no flush is requested and no poke is recorded it changes nothing at all.   *)
C24_QueueCancel ==
  [][\A q \in Queues :
       QueueCancelCall(q) =>
         /\ err' = "none"
         /\ ~queue'[q].flushRequested /\ host'[q] = 0
         /\ queue'[q].microTaskRequestFlushTask = None
         /\ \A t \in Tasks : queue[q].microTaskRequestFlushTask = t /\ task[t].status = "pending"
                                => task'[t].status = "canceled"
         /\ OwnWork(Cur', q) = OwnWork(Cur, q)
         /\ (~queue[q].flushRequested /\ queue[q].microTaskRequestFlushTask = None)
              => queue' = queue /\ task' = task /\ host' = host]_vars

\* the microtask queue has a delayed task, and its poke task was canceled
\* with no flush requested in its place: cancel() retracted it
C24_Witness ==
  /\ queue[MicroQ].delayedSize > 0
  /\ queue[MicroQ].microTaskRequestFlushTask = None
  /\ ~queue[MicroQ].flushRequested /\ host[MicroQ] = 0
  /\ \E t \in Tasks : task[t].callback = "poke" /\ task[t].status = "canceled"

\* t is the one task queued so far, on the empty queue q, with delay 0 and not persistent
OnlyTask(q, t) ==
  /\ ghost.nq = 1 /\ Handle(t) /\ ghost.seq[t] = 1 /\ ghost.home[t] = q
  /\ ghost.delay[t] = 0 /\ ~task[t].persistent

(* C25: no task that is not persistent has its callback invoked twice after   *)
(* it was queued; a single zero-delay task queued on an empty queue waits     *)
(* with a flush requested until that flush invokes it, and once it has        *)
(* completed it was invoked, the three sizes are 0 and no yield waiter is     *)
(* outstanding.                                                               *)
C25_OnceThenEmpty ==
  /\ ghost.twice = {}
  /\ \A q \in Queues, t \in Tasks :
       OnlyTask(q, t) =>
         /\ task[t].status = "pending" => ~ghost.ran[t] /\ host[q] > 0
         /\ task[t].status # "pending" => ghost.ran[t]
         /\ task[t].status = "completed" =>
              /\ \A l \in Lists : queue[q][SizeF(l)] = 0
              /\ ~queue[q].yieldPromise /\ ghost.waiters[q] = 0

\* the single task has completed and the flush that ran it released a yield() caller
C25_Witness ==
  \E q \in Queues, t \in Tasks :
    /\ OnlyTask(q, t) /\ task[t].status = "completed" /\ ~task[t].promise
    /\ ghost.released[q] > 0 /\ Len(ghost.invoked) = 0

\* a flush of q is on its way: requested at the host, or, for the microtask
\* queue, its poke task waits on the macrotask queue whose flush is requested
Covered(q) ==
  \/ host[q] > 0
  \/ /\ q = MicroQ /\ queue[q].microTaskRequestFlushTask # None
     /\ task[queue[q].microTaskRequestFlushTask].status = "pending"
     /\ host[MacroQ] > 0

\* t was queued, has not been run since and was not canceled
Unserved(t) ==
  Handle(t) /\ task[t].status = "pending" /\ ~ghost.ran[t] /\ ~ghost.cancelled[t]

(* C26: between flushes, every task that was queued (by queueTask or take),   *)
(* has not been run yet and was not canceled is covered by an outstanding     *)
(* flush request of the queue that holds it.                                  *)
C26_Covered ==
  TopLevel => \A t \in Tasks : Unserved(t) => Covered(ghost.home[t])

(* C27: a flush of q that finds suspenderTask set invokes no callback and     *)
(* leaves the three lists of q and their sizes, pendingAsyncCount,            *)
(* suspenderTask, the yield waiter and the status of every task of a consumer *)
(* as they were; when it ends a flush of q is requested again (through the    *)
(* poke task for the microtask queue).                                        *)
C27_SuspendedFlush ==
  [][\A q \in Queues :
       (queue[q].suspenderTask # None /\ HostFlush(q)) =>
         /\ err' = "none" /\ running' = None /\ Len(ghost'.invoked) = 0
         /\ OwnWork(Cur', q) = OwnWork(Cur, q)
         /\ Covered(q)']_vars

\* a flush found the queue suspended while tasks waited in its pending and
\* processing lists, and a flush is requested again
C27_Witness ==
  \E q \in Queues :
    /\ queue[q].suspenderTask # None /\ q \in ghost.polled
    /\ queue[q].pendingSize > 0 /\ queue[q].processingSize > 0
    /\ Covered(q) /\ Len(ghost.invoked) = 0 /\ TopLevel

(***************************************************************************)
(* SpecTakeAsync: the scenario of SpecTake with callbacks that may return a *)
(* promise, which settles between flushes.                                  *)
(***************************************************************************)
NextTakeAsync ==
  \/ NextTake
  \/ ReturnAsync
  \/ \E t \in Tasks : Settle(t)

SpecTakeAsync == Init /\ [][NextTakeAsync]_vars

\* the tasks run by q whose callback returned a promise that has not settled
\* and that do not suspend the queue
InFlight(q) ==
  {t \in Tasks : Constructed(t) /\ task[t].promise /\ ~task[t].suspend /\ ghost.home[t] = q}

(* C28: pendingAsyncCount of a queue is never negative and is the number of   *)
(* tasks the queue ran that do not suspend and whose promise has not settled, *)
(* also when such a task was canceled meanwhile; and when the callback of     *)
(* such a task returns its promise while a task of a consumer is at the head  *)
(* of the processing list, the same flush invokes that task next.             *)
C28_AsyncCount ==
  /\ [](\A q \in Queues :
         /\ queue[q].pendingAsyncCount >= 0
         /\ queue[q].pendingAsyncCount = Cardinality(InFlight(q)))
  /\ [][(/\ running # None /\ ~task[running].suspend
          /\ queue[flushing].processingSize > 0
          /\ task[queue[flushing].processingHead].callback = "user"
          /\ ReturnAsync)
         => err' = "none" /\ running' = queue[flushing].processingHead]_vars

(***************************************************************************)
(* SpecMismatch: tasks of the macrotask queue that may suspend it, callbacks *)
(* that return a promise, Task.cancel and TaskQueue.cancel, and a caller    *)
(* that reports the completion of a suspend task to a queue that did not    *)
(* record it as its suspenderTask.                                          *)
(***************************************************************************)
MismatchOptions == Options({0}, {FALSE}, {FALSE}, {FALSE}, BOOLEAN)

\* q.completeAsyncTask(t) is called for a suspend task t that q has not recorded
CompleteCall(q, t) ==
  /\ TopLevel
  /\ Handle(t)
  /\ task[t].suspend
  /\ queue[q].suspenderTask # t
  /\ \E r \in {CompleteAsyncTask(Begin, q, t)} : Commit(r)

NextMismatch ==
  \/ \E o \in MismatchOptions : QueueTaskCallN(MacroQ, o, MaxQueuedMismatch)
  \/ \E t \in Tasks : CancelCall(t)
  \/ QueueCancelCall(MacroQ)
  \/ \E q \in Queues, t \in Tasks : CompleteCall(q, t)
  \/ HostFlush(MacroQ)
  \/ ReturnSync
  \/ ReturnAsync
  \/ \E t \in Tasks : Settle(t)

SpecMismatch == Init /\ [][NextMismatch]_vars

(* C29: completeAsyncTask for a suspend task that the queue has not recorded  *)
(* as its suspenderTask ends in the completion-mismatch error with the queues,*)
(* the tasks and the host's flush requests unchanged; when the promise of a   *)
(* suspend task settles, its queue has recorded that task and the completion  *)
(* clears suspenderTask; and no step of queueTask, flush, cancel or such a    *)
(* settlement ends in the mismatch error.                                     *)
C29_Mismatch ==
  [][/\ \A q \in Queues, t \in Tasks :
          CompleteCall(q, t) =>
            (err' = "CompletionMismatch" /\ queue' = queue /\ task' = task /\ host' = host)
     /\ \A t \in Tasks :
          (task[t].suspend /\ Settle(t)) =>
            (/\ err' = "none"
             /\ queue[task[t].taskQueue].suspenderTask = t
             /\ queue'[task[t].taskQueue].suspenderTask = None)
     /\ (~ \E q \in Queues, t \in Tasks : CompleteCall(q, t)) =>
            err' # "CompletionMismatch"]_vars

\* a completion was refused while another suspend task was recorded
C29_Witness ==
  /\ err = "CompletionMismatch"
  /\ \E q \in Queues : queue[q].suspenderTask # None /\ queue[q].pendingSize > 0

(* C30: a queue never has more than one flush request outstanding at its      *)
(* FlushRequestor, and flushRequested is true exactly while one is            *)
(* outstanding.                                                               *)
C30_NoStacking ==
  \A q \in Queues :
    host[q] <= 1 /\ (queue[q].flushRequested <=> host[q] = 1)

\* two tasks were queued one after the other and one flush is requested
C30_Witness ==
  \E q \in Queues :
    queue[q].pendingSize >= 2 /\ queue[q].flushRequested /\ host[q] = 1

\* the poke tasks that wait on the macrotask queue
PendingPokes ==
  {t \in Tasks : task[t].callback = "poke" /\ task[t].status = "pending"}

(* C31: at most one pending poke task exists at any moment, and a queue whose *)
(* microTaskRequestFlushTask is set is the microtask queue and the field      *)
(* refers to that pending poke task.                                          *)
C31_OnePoke ==
  /\ Cardinality(PendingPokes) <= 1
  /\ \A q \in Queues :
       queue[q].microTaskRequestFlushTask # None =>
         q = MicroQ /\ queue[q].microTaskRequestFlushTask \in PendingPokes

\* a poke task waits for the microtask queue after an earlier poke was canceled
\* or has run
C31_Witness ==
  /\ queue[MicroQ].microTaskRequestFlushTask \in PendingPokes
  /\ \E u \in Tasks : task[u].callback = "poke" /\ task[u].status \in {"canceled", "completed"}

\* the tasks a list of q holds: the first size tasks reached from its head
Held(q, l) ==
  LET seq == ListOf(Cur, q, l)
  IN {seq[i] : i \in {j \in DOMAIN seq : j <= queue[q][SizeF(l)]}}

\* the lists that hold t
Holders(t) == {p \in Queues \X Lists : t \in Held(p[1], p[2])}

(* C32: every task is held by at most one list of at most one queue, and it   *)
(* is held by a list exactly when its status is pending.                      *)
C32_OneList ==
  \A t \in Tasks :
    Constructed(t) =>
      /\ Cardinality(Holders(t)) <= 1
      /\ (task[t].status = "pending" <=> Holders(t) # {})

\* list l of queue q is whole: the counter, the head, the tail and the links of
\* its tasks agree
Whole(q, l) ==
  LET seq == ListOf(Cur, q, l)
      n == queue[q][SizeF(l)]
  IN /\ n >= 0 /\ n = Len(seq)
     /\ (queue[q][HeadF(l)] = None <=> n = 0)
     /\ queue[q][TailF(l)] = (IF Len(seq) = 0 THEN None ELSE seq[Len(seq)])
     /\ \A i \in DOMAIN seq :
          /\ task[seq[i]].status = "pending"
          /\ task[seq[i]].prev = (IF i = 1 THEN None ELSE seq[i - 1])
          /\ task[seq[i]].next = (IF i = Len(seq) THEN None ELSE seq[i + 1])

(* C33: whenever no operation of a queue is executing, each of the three      *)
(* lists of each queue is whole: its size is not negative and is the number   *)
(* of tasks reached from its head, the head is undefined exactly when the     *)
(* size is 0, the tail is the last task reached, and prev and next of the     *)
(* tasks reached agree and lead to pending tasks of this list only.           *)
C33_NoTornList ==
  TopLevel => \A q \in Queues, l \in Lists : Whole(q, l)

\* the first n tasks of a list (all of them if there are fewer)
First(seq, n) == SubSeq(seq, 1, IF n < Len(seq) THEN n ELSE Len(seq))

\* the tasks list l of queue q holds in state s, in list order
HeldSeq(s, q, l) == First(ListOf(s, q, l), s.queue[q][SizeF(l)])

\* the length of the longest run of due tasks at the head of seq
DueRun(seq) ==
  Cardinality({i \in DOMAIN seq : \A j \in 1..i : task[seq[j]].queueTime <= now})

FlushStep(q) ==
  \/ HostFlush(q)
  \/ flushing = q /\ (ReturnSync \/ ReturnAsync)

(* C35: when a flush pass of a queue that is not suspended runs to its end,   *)
(* the pending list is empty; if the processing list is not empty a flush is  *)
(* requested at the host; otherwise, if the delayed list is not empty or      *)
(* pendingAsyncCount > 0, a clamped flush is requested (for the microtask     *)
(* queue a poke task on the macrotask queue, whose flush is requested);       *)
(* otherwise the pass requests nothing.                                       *)
C35_FollowUp ==
  [][\A q \in Queues :
       (/\ FlushStep(q) /\ queue[q].suspenderTask = None
        /\ flushing' = NoQueue /\ err' = "none" /\ queue'[q].suspenderTask = None) =>
         /\ queue'[q].pendingSize = 0
         /\ IF queue'[q].processingSize > 0
            THEN queue'[q].flushRequested /\ host'[q] = 1
            ELSE IF queue'[q].delayedSize > 0 \/ queue'[q].pendingAsyncCount > 0
            THEN IF q = MicroQ
                 THEN /\ queue'[q].microTaskRequestFlushTask # None
                      /\ task'[queue'[q].microTaskRequestFlushTask].status = "pending"
                      /\ task'[queue'[q].microTaskRequestFlushTask].callback = "poke"
                      /\ queue'[MacroQ].flushRequested /\ host'[MacroQ] = 1
                 ELSE queue'[q].flushRequested /\ host'[q] = 1
            ELSE /\ queue'[q].microTaskRequestFlushTask = None
                 /\ host'[q] = (IF flushing = q THEN host[q] ELSE host[q] - 1)
                 /\ queue'[q].flushRequested =
                      (IF flushing = q THEN queue[q].flushRequested ELSE FALSE)]_vars

\* a flush of the microtask queue ran to its end with the promise of a task
\* outstanding, and a poke task waits on the macrotask queue
C35_Witness ==
  /\ TopLevel /\ flushing = NoQueue /\ err = "none"
  /\ \A t \in Tasks : ~task[t].suspend
  /\ queue[MicroQ].pendingAsyncCount > 0 /\ queue[MicroQ].processingSize = 0
  /\ queue[MicroQ].microTaskRequestFlushTask # None
  /\ host[MacroQ] = 1

(* C36: no flush pass invokes a task that a callback of the same pass queued  *)
(* without preempt or a persistent task that was reset during the pass, the   *)
(* loops of a pass always end, and a pass in progress waits for the callback  *)
(* it invoked and nothing else.                                               *)
C36_PassEnds ==
  /\ ghost.rerun = {}
  /\ err # "Hang"
  /\ flushing # NoQueue => running # None

(* C37: Task.cancel on the task recorded as suspenderTask leaves it recorded; *)
(* the record changes only when the promise of that task settles and          *)
(* completeAsyncTask is called for it; and no callback of a queue is invoked  *)
(* while the queue has a suspenderTask.                                       *)
C37_CancelKeepsSuspension ==
  /\ [](\A i \in DOMAIN ghost.invoked :
          ghost.invoked[i].susp = None /\ queue[ghost.invoked[i].home].suspenderTask = None)
  /\ [][\A q \in Queues :
          queue[q].suspenderTask # None =>
            /\ \A t \in Tasks :
                 (t = queue[q].suspenderTask /\ CancelCall(t)) =>
                   (err' = "none" /\ queue'[q].suspenderTask = t
                      /\ task'[t].status = "canceled")
            /\ queue'[q].suspenderTask # queue[q].suspenderTask =>
                 (Settle(queue[q].suspenderTask) /\ queue'[q].suspenderTask = None)]_vars

\* the suspender of a queue was canceled, a flush has found the queue suspended
\* since, and a task still waits
C37_Witness ==
  \E q \in Queues :
    /\ queue[q].suspenderTask # None
    /\ task[queue[q].suspenderTask].status = "canceled"
    /\ q \in ghost.polled
    /\ queue[q].processingSize + queue[q].pendingSize > 0

(* C38: when the waiter of a yield() call that found persistent tasks queued  *)
(* is resolved, the persistent task queued last among them has been invoked   *)
(* exactly once since the waiter was created.                                 *)
C38_OneCycle ==
  \A e \in ghost.cycle : e[3] = 1

\* the Task objects in the pool of q (taskPool[0 .. taskPoolSize - 1])
PoolSet(q) == {queue[q].taskPool[i] : i \in DOMAIN queue[q].taskPool}

(* C39: no Task object of a pool is held by a list, reachable from a list head *)
(* through next links, recorded as suspender, pending or running; and no Task  *)
(* object is in a pool twice or in the pools of two queues.                    *)
C39_PoolApart ==
  /\ \A q \in Queues : \A t \in PoolSet(q) :
       /\ task[t].status \notin {"pending", "running"}
       /\ Holders(t) = {}
       /\ \A p \in Queues : queue[p].suspenderTask # t
       /\ \A p \in Queues, l \in Lists :
            \A i \in DOMAIN ListOf(Cur, p, l) : ListOf(Cur, p, l)[i] # t
  /\ \A q \in Queues : \A i, j \in DOMAIN queue[q].taskPool :
       i # j => queue[q].taskPool[i] # queue[q].taskPool[j]
  /\ \A p, q \in Queues : p # q => PoolSet(p) \cap PoolSet(q) = {}

(* C40: every task that a list holds and that has preempt = true is held by   *)
(* a processing list only, and every task that a list holds and whose         *)
(* queueTime is greater than the current time is held by a delayed list only. *)
C40_HintsSound ==
  \A t \in Tasks :
    Constructed(t) =>
      /\ task[t].preempt => \A h \in Holders(t) : h[2] = "processing"
      /\ task[t].queueTime > now => \A h \in Holders(t) : h[2] = "delayed"

====
